---- MODULE Spec2Model ----
(***************************************************************************)
(* Maze generation (maze/generator.py), the environment (maze/env.py: the  *)
(* graph view and the MDP view), the lazy-invalidation priority queue      *)
(* (utils/priority_queue.py), the three search solvers (solvers/bfs.py,    *)
(* solvers/dfs.py, solvers/astar.py) and the two MDP solvers               *)
(* (solvers/value_iteration.py, solvers/policy_iteration.py) of maze-ai,   *)
(* as state machines.                                                      *)
(*                                                                         *)
(* Specifications:                                                         *)
(*   SpecGen  generate_maze alone, one step per iteration of its loop.     *)
(*   SpecPQ   a PriorityQueue under arbitrary push / pop calls.            *)
(*   Spec     a maze (returned by generate_maze, or built directly as a    *)
(*            Maze value) wrapped in a MazeEnv and handed to one search    *)
(*            solver.                                                      *)
(*   SpecEnv  one call of neighbors, _move, transitions or reward on a     *)
(*            MazeEnv, or of _follow_policy with it; probabilities are     *)
(*            IEEE doubles, modelled exactly.                              *)
(*   SpecMdp  a directly built maze handed to any of the five solvers;     *)
(*            rewards and gamma are whole numbers and slip_prob is 0, so   *)
(*            every float the MDP solvers compute is an exact integer.     *)
(*   SpecBraid a directly built maze that may contain cycles, on grids     *)
(*            wide enough for A* to re-parent a cell, handed to one search *)
(*            solver.                                                      *)
(***************************************************************************)
EXTENDS Integers, Sequences, FiniteSets, TLC

\* ---------------------------------------------------------------- bounds
MaxRows == 2
MaxCols == 3
MaxGivenCells == 6
MaxOps == 6
MaxSweeps == 3
MaxPolicyIters == 2
MaxBraidCols == 5
MaxBraidCells == 10

VARIABLES
  \* generate_maze / Maze; rng is the call's random.Random
  rows, cols, start, goal, walls, visited, stack, gpc, rng,
  \* solver call
  alg, spc, frontier, seen, parents, visited_order, g, closed, path, metrics,
  \* PriorityQueue (A*'s openpq; the queue under test in SpecPQ)
  openpq, lastOp, lowest, nops, scen, returned,
  \* MazeEnv parameters, the last call made on the env, MDP solver locals
  env, lastCall, mdp

mazeVars == <<rows, cols, start, goal, walls, visited, stack, gpc, rng>>
solverVars == <<alg, spc, frontier, seen, parents, visited_order, g, closed, path, metrics>>
pqVars == <<openpq, lastOp, lowest, nops, scen, returned>>
envVars == <<env, lastCall, mdp>>
vars == <<mazeVars, solverVars, pqVars, envVars>>

\* Python's None; cells are pairs <<r, c>>, so the empty tuple is no cell.
None == <<>>

\* ------------------------------------------------------------ generator.py
N == 1
E == 2
S == 4
W == 8

DIRS == << <<-1, 0, N, S>>, <<0, 1, E, W>>, <<1, 0, S, N>>, <<0, -1, W, E>> >>

AllWalls == N + E + S + W

\* (mask & bit) != 0 for a single-bit constant
HasBit(mask, bit) == (mask \div bit) % 2 = 1

\* mask & ~bit
ClearBit(mask, bit) == IF HasBit(mask, bit) THEN mask - bit ELSE mask

Cells(R, C) == (0 .. R - 1) \X (0 .. C - 1)

\* the bounds test with the last row cut off
InGrid_short(R, C, cell) == /\ 0 <= cell[1] /\ cell[1] < R - 1
                            /\ 0 <= cell[2] /\ cell[2] < C

InGrid(R, C, cell) == /\ 0 <= cell[1] /\ cell[1] < R
                      /\ 0 <= cell[2] /\ cell[2] < C

\* has_wall(maze, r, c, direction_bit)
has_wall(w, cell, bit) == HasBit(w[cell], bit)

\* The list neigh built at lines 61-65: unvisited in-bounds neighbours of the
\* stack top, in DIRS order, as <<nr, nc, w_curr, w_next>>.
RECURSIVE NeighFrom(_, _)
NeighFrom(cell, i) ==
  IF i > Len(DIRS) THEN <<>>
  ELSE LET d == DIRS[i]
           n == <<cell[1] + d[1], cell[2] + d[2]>>
           rest == NeighFrom(cell, i + 1)
       IN IF InGrid(rows, cols, n) /\ ~visited[n]
          THEN << <<n[1], n[2], d[3], d[4]>> >> \o rest
          ELSE rest

Neigh(cell) == NeighFrom(cell, 1)

\* carving that clears the wall on the current cell's side only
CarveWalls_oneway(w, cur, nxt, w_curr, w_next) ==
  [w EXCEPT ![cur] = ClearBit(@, w_curr)]

\* carving that clears both bits in both cells
CarveWalls_bothbits(w, cur, nxt, w_curr, w_next) ==
  [w EXCEPT ![cur] = ClearBit(ClearBit(@, w_curr), w_next),
            ![nxt] = ClearBit(ClearBit(w[nxt], w_next), w_curr)]

\* Lines 74-75: the wall grid after the two statements.
CarveWalls(w, cur, nxt, w_curr, w_next) ==
  [w EXCEPT ![cur] = ClearBit(@, w_curr), ![nxt] = ClearBit(w[nxt], w_next)]

Dims == (2 .. MaxRows) \X (2 .. MaxCols)

\* A call generate_maze(R, C, seed, start=st, goal=gl) before its first
\* statement; gl = None is the default argument.
GenCall(R, C, st, gl) ==
  /\ rows = R /\ cols = C /\ start = st /\ goal = gl
  /\ walls = <<>> /\ visited = <<>> /\ stack = <<>>
  /\ gpc = "call"
  /\ rng = [created |-> 0, draws |-> <<>>]

\* Lines 42-43: raise ValueError.
GenRaise ==
  /\ gpc = "call"
  /\ rows < 2 \/ cols < 2
  /\ gpc' = "raised"
  /\ UNCHANGED <<rows, cols, start, goal, walls, visited, stack, rng>>

\* the statements up to `while stack` without the test of lines 42-43
GenEntry_unchecked ==
  /\ gpc = "call"
  /\ goal' = IF goal = None THEN <<rows - 1, cols - 1>> ELSE goal
  /\ rng' = [rng EXCEPT !.created = @ + 1]
  /\ walls' = [c \in Cells(rows, cols) |-> AllWalls]
  /\ visited' = [c \in Cells(rows, cols) |-> c = start]
  /\ stack' = <<start>>
  /\ gpc' = "carve"
  /\ UNCHANGED <<rows, cols, start>>

\* Lines 42-55: the dimensions pass the test, the default goal is filled in,
\* the random source is created, and the loop is reached (line 57).
GenEntry ==
  /\ gpc = "call"
  /\ ~(rows < 2 \/ cols < 2)
  /\ goal' = IF goal = None THEN <<rows - 1, cols - 1>> ELSE goal
  /\ rng' = [rng EXCEPT !.created = @ + 1]
  /\ walls' = [c \in Cells(rows, cols) |-> AllWalls]
  /\ visited' = [c \in Cells(rows, cols) |-> c = start]
  /\ stack' = <<start>>
  /\ gpc' = "carve"
  /\ UNCHANGED <<rows, cols, start>>

\* a carving iteration that does not mark the cell it moves to
Carve_unmarked ==
  /\ gpc = "carve" /\ stack # <<>>
  /\ LET cur == stack[Len(stack)]
         neigh == Neigh(cur)
     IN /\ neigh # <<>>
        /\ \E i \in 1 .. Len(neigh) :
             LET ch == neigh[i]
                 nxt == <<ch[1], ch[2]>>
             IN /\ walls' = CarveWalls(walls, cur, nxt, ch[3], ch[4])
                /\ stack' = Append(stack, nxt)
                /\ rng' = [rng EXCEPT !.draws = Append(@, i)]
  /\ UNCHANGED <<rows, cols, start, goal, gpc, visited>>

\* One iteration that carves: rng.choice(neigh) draws the position i of the
\* candidate taken.
Carve ==
  /\ gpc = "carve" /\ stack # <<>>
  /\ LET cur == stack[Len(stack)]
         neigh == Neigh(cur)
     IN /\ neigh # <<>>
        /\ \E i \in 1 .. Len(neigh) :
             LET ch == neigh[i]
                 nxt == <<ch[1], ch[2]>>
             IN /\ walls' = CarveWalls(walls, cur, nxt, ch[3], ch[4])
                /\ visited' = [visited EXCEPT ![nxt] = TRUE]
                /\ stack' = Append(stack, nxt)
                /\ rng' = [rng EXCEPT !.draws = Append(@, i)]
  /\ UNCHANGED <<rows, cols, start, goal, gpc>>

\* a backtracking iteration that consults the random source
Backtrack_draws ==
  /\ gpc = "carve" /\ stack # <<>>
  /\ Neigh(stack[Len(stack)]) = <<>>
  /\ stack' = SubSeq(stack, 1, Len(stack) - 1)
  /\ rng' = [rng EXCEPT !.draws = Append(@, 1)]
  /\ UNCHANGED <<rows, cols, start, goal, walls, visited, gpc>>

\* One iteration that backtracks: no candidate, stack.pop().
Backtrack ==
  /\ gpc = "carve" /\ stack # <<>>
  /\ Neigh(stack[Len(stack)]) = <<>>
  /\ stack' = SubSeq(stack, 1, Len(stack) - 1)
  /\ UNCHANGED <<rows, cols, start, goal, walls, visited, gpc, rng>>

\* The loop test fails and the Maze is returned.
GenReturn ==
  /\ gpc = "carve" /\ stack = <<>>
  /\ gpc' = "done"
  /\ UNCHANGED <<rows, cols, start, goal, walls, visited, stack, rng>>

\* ------------------------------------------------------ open-cell graph
Adjacent(a, b) ==
  \/ a[1] = b[1] /\ (a[2] = b[2] + 1 \/ b[2] = a[2] + 1)
  \/ a[2] = b[2] /\ (a[1] = b[1] + 1 \/ b[1] = a[1] + 1)

\* The wall bit on a's side facing the adjacent cell b.
SideBit(a, b) ==
  IF b[1] = a[1] - 1 THEN N
  ELSE IF b[2] = a[2] + 1 THEN E
  ELSE IF b[1] = a[1] + 1 THEN S
  ELSE W

\* No wall between the two adjacent cells, on either side.
OpenEdge(w, a, b) ==
  /\ Adjacent(a, b)
  /\ ~has_wall(w, a, SideBit(a, b))
  /\ ~has_wall(w, b, SideBit(b, a))

OpenEdges(w) ==
  {{p[1], p[2]} : p \in {q \in (DOMAIN w) \X (DOMAIN w) : OpenEdge(w, q[1], q[2])}}

RECURSIVE Closure(_, _)
Closure(w, set) ==
  LET more == set \cup {b \in DOMAIN w : \E a \in set : OpenEdge(w, a, b)}
  IN IF more = set THEN set ELSE Closure(w, more)

Connected(w) == \A c \in DOMAIN w : Closure(w, {c}) = DOMAIN w

WallsSymmetric(w) ==
  \A a \in DOMAIN w : \A b \in DOMAIN w :
    Adjacent(a, b) => (has_wall(w, a, SideBit(a, b)) <=> has_wall(w, b, SideBit(b, a)))

\* ------------------------------------------------------------- floats
\* A priority is a Python float.  Every float the solvers build is
\* i + sqrt(n) for naturals i, n (n = 0 or not a perfect square): it is the
\* record [int |-> i, rad |-> n].  Two such records are equal exactly when
\* the numbers are, and at the sizes explored here the floating-point sums
\* are ordered as the real numbers are.
F(i, n) == [int |-> i, rad |-> n]

\* a < b on floats: a.int + sqrt(a.rad) < b.int + sqrt(b.rad)
FLess(a, b) ==
  LET m == a.rad
      n == b.rad
      k == b.int - a.int
  IN IF m = n THEN 0 < k
     ELSE IF m > n
       THEN /\ k > 0
            /\ \/ m - n - k * k < 0
               \/ (m - n - k * k) * (m - n - k * k) < 4 * k * k * n
       ELSE \/ k >= 0
            \/ /\ n - m - k * k > 0
               /\ (n - m - k * k) * (n - m - k * k) > 4 * k * k * m

RECURSIVE ISqrtFrom(_, _)
ISqrtFrom(n, k) == IF (k + 1) * (k + 1) > n THEN k ELSE ISqrtFrom(n, k + 1)

\* math.sqrt of a natural number
Sqrt(n) == LET k == ISqrtFrom(n, 0) IN IF k * k = n THEN F(k, 0) ELSE F(0, n)

\* ------------------------------------------------------ priority_queue.py
\* _heap is kept as the set of its _PQItem entries: heapq.heappop returns the
\* least entry under _PQItem's order, whatever the array layout.
PQNew == [heap |-> {}, tie |-> 0, best |-> <<>>]

\* _PQItem(order=True): compare (priority, tie); item takes no part.
\* the order with the priorities reversed (a max-heap)
PQItemLess_max(a, b) ==
  \/ FLess(b.priority, a.priority)
  \/ a.priority = b.priority /\ a.tie < b.tie

\* the order with the tie-breaker reversed (latest pushed first)
PQItemLess_lifo(a, b) ==
  \/ FLess(a.priority, b.priority)
  \/ a.priority = b.priority /\ a.tie > b.tie

PQItemLess(a, b) ==
  \/ FLess(a.priority, b.priority)
  \/ a.priority = b.priority /\ a.tie < b.tie

HeapTop(heap) == CHOOSE e \in heap : \A o \in heap : o = e \/ PQItemLess(e, o)

\* self._best.get(top.item) == top.priority
IsLive(pq, e) == e.item \in DOMAIN pq.best /\ pq.best[e.item] = e.priority

\* push that records and enqueues without consulting the best-known priority
push_unconditional(pq, item, priority) ==
  [heap |-> pq.heap \cup {[priority |-> priority, tie |-> pq.tie, item |-> item]},
   tie |-> pq.tie + 1,
   best |-> [x \in DOMAIN pq.best \cup {item} |->
               IF x = item THEN priority ELSE pq.best[x]]]

push(pq, item, priority) ==
  IF item \notin DOMAIN pq.best \/ FLess(priority, pq.best[item])
  THEN [heap |-> pq.heap \cup {[priority |-> priority, tie |-> pq.tie, item |-> item]},
        tie |-> pq.tie + 1,
        best |-> [x \in DOMAIN pq.best \cup {item} |->
                    IF x = item THEN priority ELSE pq.best[x]]]
  ELSE pq

\* The result of pop and the queue it leaves: raised stands for IndexError.
RECURSIVE pop(_)
pop(pq) ==
  IF pq.heap = {}
  THEN [raised |-> TRUE, item |-> None, priority |-> None, pq |-> pq]
  ELSE LET top == HeapTop(pq.heap)
           rest == [pq EXCEPT !.heap = pq.heap \ {top}]
       IN IF IsLive(pq, top)
          THEN [raised |-> FALSE, item |-> top.item, priority |-> top.priority, pq |-> rest]
          ELSE pop(rest)

\* empty() that looks at the physical entries only
empty_physical(pq) == pq.heap = {}

empty(pq) ==
  \/ Cardinality(DOMAIN pq.best) = 0
  \/ \A it \in pq.heap : ~IsLive(pq, it)

\* __len__
len(pq) == Cardinality(DOMAIN pq.best)

\* ---------------------------------------------------- generate_maze alone
DefaultGoal(R, C) == <<R - 1, C - 1>>

\* Solver and queue variables while no solver or queue is in use.
SolverIdle ==
  /\ alg = "none" /\ spc = "idle" /\ frontier = <<>> /\ seen = {}
  /\ parents = <<>> /\ visited_order = <<>> /\ g = <<>> /\ closed = {}
  /\ path = <<>> /\ metrics = <<>>

QueueIdle ==
  /\ openpq = PQNew /\ lastOp = [op |-> "new"] /\ lowest = <<>> /\ nops = 0 /\ scen = 0
  /\ returned = <<>>

\* No MazeEnv has been built, no call made on one, no MDP solver entered.
EnvIdle == env = <<>> /\ lastCall = [op |-> "none"] /\ mdp = <<>>

\* The dimensions generate_maze is called with: from 0 up, so that both
\* sides of the test of line 42 are taken.
CallDims == (0 .. MaxRows) \X (0 .. MaxCols)

\* The start cells passed: (0, 0), the default, and on a grid that passes the
\* test every cell of it.
Starts(R, C) == {<<0, 0>>} \cup (IF R < 2 \/ C < 2 THEN {} ELSE Cells(R, C))

InitGen ==
  /\ \E d \in CallDims : \E st \in Starts(d[1], d[2]) :
       GenCall(d[1], d[2], st, None)
  /\ SolverIdle /\ QueueIdle /\ EnvIdle

NextGen ==
  \/ GenRaise /\ UNCHANGED <<solverVars, pqVars, envVars>>
  \/ GenEntry /\ UNCHANGED <<solverVars, pqVars, envVars>>
  \/ Carve /\ UNCHANGED <<solverVars, pqVars, envVars>>
  \/ Backtrack /\ UNCHANGED <<solverVars, pqVars, envVars>>
  \/ GenReturn /\ UNCHANGED <<solverVars, pqVars, envVars>>

\* generate_maze is a sequential loop: an enabled iteration is executed.
SpecGen == InitGen /\ [][NextGen]_vars /\ WF_vars(NextGen)

\* ---- a queue under arbitrary calls
Items == {"x", "y", "z"}

\* The priorities pushed: those of the documented example.
Prios == {3, 4, 5}

\* The calls of the documented example, in order.
Scenario ==
  << [op |-> "push", item |-> "x", p |-> 5], [op |-> "push", item |-> "x", p |-> 3],
     [op |-> "push", item |-> "y", p |-> 4], [op |-> "pop"], [op |-> "pop"], [op |-> "pop"] >>

\* scen counts the calls made while the run has been exactly the example.
ScenAfter(call) ==
  IF scen = nops /\ nops < Len(Scenario) /\ Scenario[nops + 1] = call
  THEN scen + 1 ELSE scen

\* lowest[x]: the lowest priority any push(x, _) call was given so far, and
\* the number of the call that gave it first.
LowestAfter(item, priority) ==
  IF item \in DOMAIN lowest /\ ~FLess(priority, lowest[item].priority)
  THEN lowest
  ELSE [x \in DOMAIN lowest \cup {item} |->
          IF x = item THEN [priority |-> priority, at |-> nops + 1] ELSE lowest[x]]

MazeIdle ==
  /\ rows = 0 /\ cols = 0 /\ start = None /\ goal = None
  /\ walls = <<>> /\ visited = <<>> /\ stack = <<>> /\ gpc = "none"
  /\ rng = [created |-> 0, draws |-> <<>>]

InitPQ ==
  /\ MazeIdle /\ SolverIdle /\ EnvIdle
  /\ openpq = PQNew /\ lastOp = [op |-> "new"] /\ lowest = <<>> /\ nops = 0 /\ scen = 0
  /\ returned = <<>>

PQPush ==
  /\ nops < MaxOps
  /\ \E item \in Items : \E p \in Prios :
       /\ openpq' = push(openpq, item, F(p, 0))
       /\ lastOp' = [op |-> "push", item |-> item, priority |-> F(p, 0), before |-> openpq]
       /\ lowest' = LowestAfter(item, F(p, 0))
       /\ scen' = ScenAfter([op |-> "push", item |-> item, p |-> p])
  /\ nops' = nops + 1
  /\ UNCHANGED returned

\* a pop that also drops the returned item's best-known priority
PQPopReturns_forgets ==
  /\ nops < MaxOps
  /\ LET r == pop(openpq)
     IN /\ ~r.raised
        /\ openpq' = [r.pq EXCEPT !.best =
                        [x \in DOMAIN r.pq.best \ {r.item} |-> r.pq.best[x]]]
        /\ lastOp' = [op |-> "pop", raised |-> FALSE, item |-> r.item,
                      priority |-> r.priority, before |-> openpq]
        /\ returned' = Append(returned, <<r.item, r.priority>>)
  /\ scen' = ScenAfter([op |-> "pop"])
  /\ nops' = nops + 1
  /\ UNCHANGED lowest

\* returned logs the pairs pop has returned, in order.
PQPopReturns ==
  /\ nops < MaxOps
  /\ LET r == pop(openpq)
     IN /\ ~r.raised
        /\ openpq' = r.pq
        /\ lastOp' = [op |-> "pop", raised |-> FALSE, item |-> r.item,
                      priority |-> r.priority, before |-> openpq]
        /\ returned' = Append(returned, <<r.item, r.priority>>)
  /\ scen' = ScenAfter([op |-> "pop"])
  /\ nops' = nops + 1
  /\ UNCHANGED lowest

PQPopRaises ==
  /\ nops < MaxOps
  /\ LET r == pop(openpq)
     IN /\ r.raised
        /\ openpq' = r.pq
        /\ lastOp' = [op |-> "pop", raised |-> TRUE, before |-> openpq]
  /\ scen' = ScenAfter([op |-> "pop"])
  /\ nops' = nops + 1
  /\ UNCHANGED <<lowest, returned>>

NextPQ ==
  \/ PQPush /\ UNCHANGED <<mazeVars, solverVars, envVars>>
  \/ PQPopReturns /\ UNCHANGED <<mazeVars, solverVars, envVars>>
  \/ PQPopRaises /\ UNCHANGED <<mazeVars, solverVars, envVars>>

SpecPQ == InitPQ /\ [][NextPQ]_vars

\* The physical entries that are not stale.
Live(pq) == {e \in pq.heap : IsLive(pq, e)}

\* ------------------------------------------------------------------ env.py
\* neighbors without the four bounds tests
neighbors_unbounded(s) ==
  LET r == s[1]
      c == s[2]
  IN (IF ~has_wall(walls, s, N) THEN << <<r - 1, c>> >> ELSE <<>>)
     \o (IF ~has_wall(walls, s, E) THEN << <<r, c + 1>> >> ELSE <<>>)
     \o (IF ~has_wall(walls, s, S) THEN << <<r + 1, c>> >> ELSE <<>>)
     \o (IF ~has_wall(walls, s, W) THEN << <<r, c - 1>> >> ELSE <<>>)

\* MazeEnv.neighbors(s)
neighbors(s) ==
  LET r == s[1]
      c == s[2]
  IN (IF ~has_wall(walls, s, N) /\ r - 1 >= 0 THEN << <<r - 1, c>> >> ELSE <<>>)
     \o (IF ~has_wall(walls, s, E) /\ c + 1 < cols THEN << <<r, c + 1>> >> ELSE <<>>)
     \o (IF ~has_wall(walls, s, S) /\ r + 1 < rows THEN << <<r + 1, c>> >> ELSE <<>>)
     \o (IF ~has_wall(walls, s, W) /\ c - 1 >= 0 THEN << <<r, c - 1>> >> ELSE <<>>)

\* MazeEnv.cost(s, s2): 1.0, kept as the integer 1
cost(s, s2) == 1

\* ---- probabilities
\* The doubles in [0, 2) that are multiples of 2^-64, held exactly: the triple
\* <<a, b, c>> with b, c < 2^24 is (a * 2^48 + b * 2^24 + c) * 2^-64.
Limb == 2 ^ 24

DZero == <<0, 0, 0>>
DOne == <<2 ^ 16, 0, 0>>

\* the triple of a0 * 2^48 + b0 * 2^24 + c0 with the carries propagated
DMake(a0, b0, c0) ==
  LET b1 == b0 + c0 \div Limb
  IN <<a0 + b1 \div Limb, b1 % Limb, c0 % Limb>>

\* x + y and x - y (for x >= y) as real numbers
DExactAdd(x, y) == DMake(x[1] + y[1], x[2] + y[2], x[3] + y[3])

DExactSub(x, y) ==
  LET bc == IF x[3] < y[3] THEN 1 ELSE 0
      bb == IF x[2] - bc < y[2] THEN 1 ELSE 0
  IN <<x[1] - y[1] - bb, x[2] - bc - y[2] + bb * Limb, x[3] - y[3] + bc * Limb>>

DLess(x, y) ==
  \/ x[1] < y[1]
  \/ x[1] = y[1] /\ x[2] < y[2]
  \/ x[1] = y[1] /\ x[2] = y[2] /\ x[3] < y[3]

RECURSIVE BitLen(_)
BitLen(n) == IF n = 0 THEN 0 ELSE 1 + BitLen(n \div 2)

\* Rounding of a real number to the nearest double (53 significant bits, ties
\* to even): a value below 2^-16 has fewer than 49 bits and is a double; one
\* below 2 loses at most its 12 lowest bits.
DRound(x) ==
  IF x[1] = 0 THEN x
  ELSE LET cut == BitLen(x[1]) - 5
       IN IF cut <= 0 THEN x
          ELSE LET unit == 2 ^ cut
                   rem == x[3] % unit
                   odd == (x[3] \div unit) % 2 = 1
                   up == 2 * rem > unit \/ (2 * rem = unit /\ odd)
               IN DMake(x[1], x[2], x[3] - rem + (IF up THEN unit ELSE 0))

\* the float operations x + y, x - y and x / 2.0 (halving a double is exact)
DAdd(x, y) == DRound(DExactAdd(x, y))

DSub(x, y) == DRound(DExactSub(x, y))

DHalf(x) ==
  << x[1] \div 2,
     (x[2] + (x[1] % 2) * Limb) \div 2,
     (x[3] + (x[2] % 2) * Limb) \div 2 >>

\* ---- MazeEnv
\* MazeEnv.ACTIONS (ACTIONS is not a name TLA+ allows)
Actions == <<"U", "R", "D", "L">>

\* A MazeEnv with whole-number rewards (a hundred times the defaults) and
\* the given discount and slip probability.
EnvOf(gm, sp) ==
  [gamma |-> gm, slip_prob |-> sp,
   step_reward |-> -1, goal_reward |-> 100, wall_reward |-> -5]

\* The discounts the MDP solvers are run with: none, and no discounting.
Gammas == {0, 1}

\* The thresholds theta: the deltas are whole numbers, so every theta in
\* (0, 1], the default 1e-6 included, compares with them as 1 does.
Thetas == {1}

\* a in self.ACTIONS
InActions(a) == \E i \in 1 .. Len(Actions) : Actions[i] = a

is_goal(s) == s = goal

\* the cells in column-major order
states_colmajor == [i \in 1 .. rows * cols |-> <<(i - 1) % rows, (i - 1) \div rows>>]

\* MazeEnv.states(): the cells in row-major order
states == [i \in 1 .. rows * cols |-> <<(i - 1) \div cols, (i - 1) % cols>>]

\* _move that walks through walls
move_nowalls(s, a) ==
  LET r == s[1]
      c == s[2]
  IN IF a = "U" THEN [raised |-> FALSE, to |-> IF r - 1 < 0 THEN s ELSE <<r - 1, c>>]
     ELSE IF a = "R" THEN [raised |-> FALSE, to |-> IF c + 1 >= cols THEN s ELSE <<r, c + 1>>]
     ELSE IF a = "D" THEN [raised |-> FALSE, to |-> IF r + 1 >= rows THEN s ELSE <<r + 1, c>>]
     ELSE IF a = "L" THEN [raised |-> FALSE, to |-> IF c - 1 < 0 THEN s ELSE <<r, c - 1>>]
     ELSE [raised |-> TRUE, to |-> None]

\* MazeEnv._move(s, a): the cell returned, or raised for the ValueError
move(s, a) ==
  LET r == s[1]
      c == s[2]
  IN IF a = "U"
     THEN [raised |-> FALSE,
           to |-> IF has_wall(walls, s, N) \/ r - 1 < 0 THEN s ELSE <<r - 1, c>>]
     ELSE IF a = "R"
     THEN [raised |-> FALSE,
           to |-> IF has_wall(walls, s, E) \/ c + 1 >= cols THEN s ELSE <<r, c + 1>>]
     ELSE IF a = "D"
     THEN [raised |-> FALSE,
           to |-> IF has_wall(walls, s, S) \/ r + 1 >= rows THEN s ELSE <<r + 1, c>>]
     ELSE IF a = "L"
     THEN [raised |-> FALSE,
           to |-> IF has_wall(walls, s, W) \/ c - 1 < 0 THEN s ELSE <<r, c - 1>>]
     ELSE [raised |-> TRUE, to |-> None]

\* reward with the two goal tests exchanged
reward_s2first(s, a, s2) ==
  IF is_goal(s2) THEN env.goal_reward
  ELSE IF is_goal(s) THEN 0
  ELSE IF s2 = s /\ InActions(a) THEN env.wall_reward
  ELSE env.step_reward

\* MazeEnv.reward(s, a, s2)
reward(s, a, s2) ==
  IF is_goal(s) THEN 0
  ELSE IF is_goal(s2) THEN env.goal_reward
  ELSE IF s2 = s /\ InActions(a) THEN env.wall_reward
  ELSE env.step_reward

\* The dict literal of lines 111-116 at key a.
side(a) ==
  IF a = "U" THEN <<"L", "R">>
  ELSE IF a = "R" THEN <<"U", "D">>
  ELSE IF a = "D" THEN <<"L", "R">>
  ELSE <<"U", "D">>

\* probs[k] = p: a weight that lands on a cell already present replaces it
Accumulate_overwrite(probs, k, p) ==
  IF \E i \in 1 .. Len(probs) : probs[i][1] = k
  THEN [i \in 1 .. Len(probs) |-> IF probs[i][1] = k THEN <<k, p>> ELSE probs[i]]
  ELSE Append(probs, <<k, p>>)

\* probs[k] = probs.get(k, 0.0) + p, the dict probs being the sequence of its
\* items in insertion order.
Accumulate(probs, k, p) ==
  IF \E i \in 1 .. Len(probs) : probs[i][1] = k
  THEN [i \in 1 .. Len(probs) |->
          IF probs[i][1] = k THEN <<k, DAdd(probs[i][2], p)>> ELSE probs[i]]
  ELSE Append(probs, <<k, DAdd(DZero, p)>>)

\* transitions that enters the two side outcomes before the intended one
transitions_sidefirst(s, a) ==
  IF is_goal(s) THEN [raised |-> FALSE, pairs |-> << <<s, DOne>> >>]
  ELSE IF ~DLess(DZero, env.slip_prob)
  THEN IF move(s, a).raised THEN [raised |-> TRUE, pairs |-> <<>>]
       ELSE [raised |-> FALSE, pairs |-> << <<move(s, a).to, DOne>> >>]
  ELSE IF ~InActions(a) THEN [raised |-> TRUE, pairs |-> <<>>]
  ELSE LET p_main == DSub(DOne, env.slip_prob)
           p_side == DHalf(env.slip_prob)
           ns_main == move(s, a).to
           ns_s1 == move(s, side(a)[1]).to
           ns_s2 == move(s, side(a)[2]).to
       IN [raised |-> FALSE,
           pairs |-> Accumulate(Accumulate(Accumulate(<<>>, ns_s1, p_side),
                                           ns_s2, p_side), ns_main, p_main)]

\* MazeEnv.transitions(s, a): the list returned, or raised for the ValueError
\* of _move and the KeyError of the dict lookup.
transitions(s, a) ==
  IF is_goal(s) THEN [raised |-> FALSE, pairs |-> << <<s, DOne>> >>]
  ELSE IF ~DLess(DZero, env.slip_prob)
  THEN IF move(s, a).raised THEN [raised |-> TRUE, pairs |-> <<>>]
       ELSE [raised |-> FALSE, pairs |-> << <<move(s, a).to, DOne>> >>]
  ELSE IF ~InActions(a) THEN [raised |-> TRUE, pairs |-> <<>>]
  ELSE LET p_main == DSub(DOne, env.slip_prob)
           p_side == DHalf(env.slip_prob)
           ns_main == move(s, a).to
           ns_s1 == move(s, side(a)[1]).to
           ns_s2 == move(s, side(a)[2]).to
       IN [raised |-> FALSE,
           pairs |-> Accumulate(Accumulate(Accumulate(<<>>, ns_main, p_main),
                                           ns_s1, p_side), ns_s2, p_side)]

\* ------------------------------------------------------------- metrics.py
\* An Optional field holding the value v; None is the empty tuple.
Some(v) == <<v>>

\* RunMetrics as constructed by the caller (the fields the solvers touch)
NewMetrics ==
  [solved |-> FALSE, solution_path_length |-> 0, solution_cost |-> 0,
   states_expanded |-> 0, states_generated |-> 0, unique_states_visited |-> 0,
   maximum_frontier_size |-> 0, heuristic_evaluations |-> 0,
   repeated_state_updates |-> 0, frontier_total |-> 0, frontier_samples |-> 0,
   discount_factor |-> None, convergence_threshold |-> None,
   step_reward |-> None, goal_reward |-> None, wall_penalty |-> None,
   value_iteration_steps |-> None, policy_iteration_steps |-> None,
   policy_evaluation_steps |-> None, final_convergence_error |-> None]

Max(a, b) == IF a >= b THEN a ELSE b

record_frontier(m, size) ==
  [m EXCEPT !.maximum_frontier_size = Max(@, size),
            !.frontier_total = @ + size,
            !.frontier_samples = @ + 1]

\* ------------------------------------------------------------- common.py
\* parents.get(cur)
ParentOf(par, cur) == IF cur \in DOMAIN par THEN par[cur] ELSE None

\* The list out of lines 19-22, before it is reversed.
RECURSIVE ChainFrom(_, _)
ChainFrom(par, cur) ==
  IF cur = None THEN <<>> ELSE <<cur>> \o ChainFrom(par, ParentOf(par, cur))

Reverse(seq) == [i \in 1 .. Len(seq) |-> seq[Len(seq) + 1 - i]]

\* reconstruct_path without out.reverse()
reconstruct_path_unreversed(par, st, gl) ==
  IF gl \notin DOMAIN par THEN <<>>
  ELSE LET out == ChainFrom(par, gl)
       IN IF out # <<>> /\ out[1] = st THEN out ELSE <<>>

reconstruct_path(par, st, gl) ==
  IF gl \notin DOMAIN par THEN <<>>
  ELSE LET out == Reverse(ChainFrom(par, gl))
       IN IF out # <<>> /\ out[1] = st THEN out ELSE <<>>

\* The assignments every solver makes when it pops the goal.
Solved(m, p, unique) ==
  [m EXCEPT !.unique_states_visited = unique,
            !.solution_path_length = Max(0, Len(p) - 1),
            !.solution_cost = Max(0, Len(p) - 1),
            !.solved = TRUE]

Unsolved(m, unique) ==
  [m EXCEPT !.unique_states_visited = unique, !.solved = FALSE]

\* a :> b at a key that may be present already (dict assignment)
Put(f, k, v) == [x \in DOMAIN f \cup {k} |-> IF x = k THEN v ELSE f[x]]

\* ---------------------------------------------------------------- bfs.py
\* The for loop over the neighbours of s (bfs.py 37-43, dfs.py 37-43): nbs is
\* the list in the order it is walked; acc carries visited, parents, the
\* frontier and the metrics.
RECURSIVE Discover(_, _, _, _)
Discover(nbs, i, s, acc) ==
  IF i > Len(nbs) THEN acc
  ELSE LET nb == nbs[i]
           counted == [acc EXCEPT !.metrics.states_generated = @ + 1]
       IN IF nb \in acc.visited
          THEN Discover(nbs, i + 1, s, counted)
          ELSE Discover(nbs, i + 1, s,
                 [counted EXCEPT !.visited = @ \cup {nb},
                                 !.parents = Put(@, nb, s),
                                 !.frontier = Append(@, nb)])

\* q.popleft() taking the right end instead
popleft_right(q) == [s |-> q[Len(q)], rest |-> SubSeq(q, 1, Len(q) - 1)]

\* q.popleft(): the element returned and the deque left
popleft(q) == [s |-> Head(q), rest |-> Tail(q)]

\* the entry with start recorded as its own predecessor
SolverEntry_selfparent(name) ==
  /\ gpc \in {"done", "given"} /\ spc = "idle"
  /\ alg' = name /\ spc' = "loop"
  /\ parents' = Put(<<>>, start, start)
  /\ visited_order' = <<>>
  /\ path' = <<>>

SolverEntry(name) ==
  /\ gpc \in {"done", "given"} /\ spc = "idle"
  /\ alg' = name /\ spc' = "loop"
  /\ parents' = Put(<<>>, start, None)
  /\ visited_order' = <<>>
  /\ path' = <<>>

StartBfs ==
  /\ SolverEntry("bfs")
  /\ frontier' = <<start>>
  /\ seen' = {start}
  /\ metrics' = record_frontier(NewMetrics, 1)
  /\ UNCHANGED <<g, closed, openpq>>

BfsExpand ==
  /\ spc = "loop" /\ alg = "bfs" /\ frontier # <<>>
  /\ LET s == popleft(frontier).s
         acc == Discover(neighbors(s), 1, s,
                  [visited |-> seen, parents |-> parents,
                   frontier |-> popleft(frontier).rest,
                   metrics |-> [metrics EXCEPT !.states_expanded = @ + 1]])
     IN /\ s # goal
        /\ visited_order' = Append(visited_order, s)
        /\ seen' = acc.visited
        /\ parents' = acc.parents
        /\ frontier' = acc.frontier
        /\ metrics' = record_frontier(acc.metrics, Len(acc.frontier))
  /\ UNCHANGED <<alg, spc, g, closed, path, openpq>>

\* the goal popped without being counted as expanded
BfsGoal_uncounted ==
  /\ spc = "loop" /\ alg = "bfs" /\ frontier # <<>>
  /\ LET s == popleft(frontier).s
         p == reconstruct_path(parents, start, goal)
     IN /\ s = goal
        /\ frontier' = popleft(frontier).rest
        /\ visited_order' = Append(visited_order, s)
        /\ path' = p
        /\ metrics' = Solved(metrics, p, Cardinality(seen))
  /\ spc' = "returned"
  /\ UNCHANGED <<alg, seen, parents, g, closed, openpq>>

BfsGoal ==
  /\ spc = "loop" /\ alg = "bfs" /\ frontier # <<>>
  /\ LET s == popleft(frontier).s
         p == reconstruct_path(parents, start, goal)
     IN /\ s = goal
        /\ frontier' = popleft(frontier).rest
        /\ visited_order' = Append(visited_order, s)
        /\ path' = p
        /\ metrics' = Solved([metrics EXCEPT !.states_expanded = @ + 1], p,
                             Cardinality(seen))
  /\ spc' = "returned"
  /\ UNCHANGED <<alg, seen, parents, g, closed, openpq>>

BfsExhausted ==
  /\ spc = "loop" /\ alg = "bfs" /\ frontier = <<>>
  /\ metrics' = Unsolved(metrics, Cardinality(seen))
  /\ path' = <<>>
  /\ spc' = "returned"
  /\ UNCHANGED <<alg, frontier, seen, parents, visited_order, g, closed, openpq>>

\* ---------------------------------------------------------------- dfs.py
StartDfs ==
  /\ SolverEntry("dfs")
  /\ frontier' = <<start>>
  /\ seen' = {start}
  /\ metrics' = record_frontier(NewMetrics, 1)
  /\ UNCHANGED <<g, closed, openpq>>

\* an expansion that pushes the neighbours in the order neighbors returns them
DfsExpand_forward ==
  /\ spc = "loop" /\ alg = "dfs" /\ frontier # <<>>
  /\ LET s == frontier[Len(frontier)]
         acc == Discover(neighbors(s), 1, s,
                  [visited |-> seen, parents |-> parents,
                   frontier |-> SubSeq(frontier, 1, Len(frontier) - 1),
                   metrics |-> [metrics EXCEPT !.states_expanded = @ + 1]])
     IN /\ s # goal
        /\ visited_order' = Append(visited_order, s)
        /\ seen' = acc.visited
        /\ parents' = acc.parents
        /\ frontier' = acc.frontier
        /\ metrics' = record_frontier(acc.metrics, Len(acc.frontier))
  /\ UNCHANGED <<alg, spc, g, closed, path, openpq>>

DfsExpand ==
  /\ spc = "loop" /\ alg = "dfs" /\ frontier # <<>>
  /\ LET s == frontier[Len(frontier)]
         acc == Discover(Reverse(neighbors(s)), 1, s,
                  [visited |-> seen, parents |-> parents,
                   frontier |-> SubSeq(frontier, 1, Len(frontier) - 1),
                   metrics |-> [metrics EXCEPT !.states_expanded = @ + 1]])
     IN /\ s # goal
        /\ visited_order' = Append(visited_order, s)
        /\ seen' = acc.visited
        /\ parents' = acc.parents
        /\ frontier' = acc.frontier
        /\ metrics' = record_frontier(acc.metrics, Len(acc.frontier))
  /\ UNCHANGED <<alg, spc, g, closed, path, openpq>>

DfsGoal ==
  /\ spc = "loop" /\ alg = "dfs" /\ frontier # <<>>
  /\ LET s == frontier[Len(frontier)]
         p == reconstruct_path(parents, start, goal)
     IN /\ s = goal
        /\ frontier' = SubSeq(frontier, 1, Len(frontier) - 1)
        /\ visited_order' = Append(visited_order, s)
        /\ path' = p
        /\ metrics' = Solved([metrics EXCEPT !.states_expanded = @ + 1], p,
                             Cardinality(seen))
  /\ spc' = "returned"
  /\ UNCHANGED <<alg, seen, parents, g, closed, openpq>>

DfsExhausted ==
  /\ spc = "loop" /\ alg = "dfs" /\ frontier = <<>>
  /\ metrics' = Unsolved(metrics, Cardinality(seen))
  /\ path' = <<>>
  /\ spc' = "returned"
  /\ UNCHANGED <<alg, frontier, seen, parents, visited_order, g, closed, openpq>>

\* -------------------------------------------------------------- astar.py
Abs(x) == IF x < 0 THEN -x ELSE x

\* _h(a, b, kind, metrics): the value returned; the caller counts the call
\* in heuristic_evaluations.
h(a, b, kind) ==
  LET dr == Abs(a[1] - b[1])
      dc == Abs(a[2] - b[2])
  IN IF kind = "manhattan" THEN F(dr + dc, 0) ELSE Sqrt(dr * dr + dc * dc)

Kind(name) == IF name = "astar_manhattan" THEN "manhattan" ELSE "euclidean"

\* tentative + _h(...): tentative is a whole number of unit costs
FPlus(t, x) == F(t + x.int, x.rad)

\* The for loop over the neighbours of s (astar.py 63-74).
RECURSIVE Relax(_, _, _, _)
Relax(nbs, i, s, acc) ==
  IF i > Len(nbs) THEN acc
  ELSE LET nb == nbs[i]
           tentative == acc.g[s] + cost(s, nb)
           better == nb \in DOMAIN acc.g /\ tentative < acc.g[nb]
           m1 == [acc.metrics EXCEPT !.states_generated = @ + 1,
                    !.repeated_state_updates = IF better THEN @ + 1 ELSE @]
       IN IF nb \notin DOMAIN acc.g \/ tentative < acc.g[nb]
          THEN Relax(nbs, i + 1, s,
                 [g |-> Put(acc.g, nb, tentative),
                  parents |-> Put(acc.parents, nb, s),
                  openpq |-> push(acc.openpq, nb, FPlus(tentative, h(nb, goal, Kind(alg)))),
                  metrics |-> [m1 EXCEPT !.heuristic_evaluations = @ + 1]])
          ELSE Relax(nbs, i + 1, s, [acc EXCEPT !.metrics = m1])

\* an entry that does not count the evaluation of _h for start
StartAstar_uncounted ==
  \E name \in {"astar_manhattan", "astar_euclidean"} :
    /\ SolverEntry(name)
    /\ openpq' = push(PQNew, start, h(start, goal, Kind(name)))
    /\ g' = Put(<<>>, start, 0)
    /\ closed' = {}
    /\ metrics' = record_frontier(NewMetrics, len(openpq'))
    /\ UNCHANGED <<frontier, seen>>

StartAstar ==
  \E name \in {"astar_manhattan", "astar_euclidean"} :
    /\ SolverEntry(name)
    /\ openpq' = push(PQNew, start, h(start, goal, Kind(name)))
    /\ g' = Put(<<>>, start, 0)
    /\ closed' = {}
    /\ metrics' = record_frontier([NewMetrics EXCEPT !.heuristic_evaluations = 1],
                                  len(openpq'))
    /\ UNCHANGED <<frontier, seen>>

IsAstar == alg \in {"astar_manhattan", "astar_euclidean"}

\* One iteration of `while True` in which pop returns: the popped state is
\* dropped when already closed, ends the search when it is the goal, and is
\* expanded otherwise.
AstarPopped ==
  /\ spc = "loop" /\ IsAstar
  /\ LET r == pop(openpq)
         s == r.item
     IN /\ ~r.raised
        /\ IF s \in closed
           THEN /\ openpq' = r.pq
                /\ UNCHANGED <<spc, g, closed, parents, visited_order, path, metrics>>
           ELSE IF s = goal
           THEN LET p == reconstruct_path(parents, start, goal)
                IN /\ openpq' = r.pq
                   /\ closed' = closed \cup {s}
                   /\ visited_order' = Append(visited_order, s)
                   /\ path' = p
                   /\ metrics' = Solved([metrics EXCEPT !.states_expanded = @ + 1], p,
                                        Cardinality(DOMAIN g))
                   /\ spc' = "returned"
                   /\ UNCHANGED <<g, parents>>
           ELSE LET acc == Relax(neighbors(s), 1, s,
                             [g |-> g, parents |-> parents, openpq |-> r.pq,
                              metrics |-> [metrics EXCEPT !.states_expanded = @ + 1]])
                IN /\ closed' = closed \cup {s}
                   /\ visited_order' = Append(visited_order, s)
                   /\ g' = acc.g
                   /\ parents' = acc.parents
                   /\ openpq' = acc.openpq
                   /\ metrics' = record_frontier(acc.metrics, len(acc.openpq))
                   /\ UNCHANGED <<spc, path>>
  /\ UNCHANGED <<alg, frontier, seen>>

\* pop raises IndexError and nothing catches it
AstarExhausted_uncaught ==
  /\ spc = "loop" /\ IsAstar
  /\ pop(openpq).raised
  /\ openpq' = pop(openpq).pq
  /\ spc' = "raised"
  /\ UNCHANGED <<alg, frontier, seen, parents, visited_order, g, closed, path, metrics>>

\* pop raises IndexError: the loop breaks and the unsolved result is returned.
AstarExhausted ==
  /\ spc = "loop" /\ IsAstar
  /\ LET r == pop(openpq)
     IN /\ r.raised
        /\ openpq' = r.pq
  /\ metrics' = Unsolved(metrics, Cardinality(DOMAIN g))
  /\ path' = <<>>
  /\ spc' = "returned"
  /\ UNCHANGED <<alg, frontier, seen, parents, visited_order, g, closed>>

\* ------------------------------------------------------ MDP solvers
\* (In the actions below a value computed once and used in several
\* assignments is bound by \E over a one-element set.)
\* p * x for the probabilities of an env with slip_prob = 0.0, where every
\* pair of transitions carries 1.0 (and 1.0 * x = x).
Times(p, x) == IF p = DOne THEN x ELSE 0

\* MazeEnv.expected_return(V, s, a), the loop over the pairs from the i-th on.
\* The values are whole numbers (whole rewards, gamma 0.0 or 1.0), on which
\* the float operations are exact.
RECURSIVE ReturnFrom(_, _, _, _, _)
ReturnFrom(V, s, a, pairs, i) ==
  IF i > Len(pairs) THEN 0
  ELSE Times(pairs[i][2], reward(s, a, pairs[i][1]) + env.gamma * V[pairs[i][1]])
       + ReturnFrom(V, s, a, pairs, i + 1)

expected_return(V, s, a) == ReturnFrom(V, s, a, transitions(s, a).pairs, 1)

\* The greedy action at s (value_iteration.py 19-26, policy_iteration.py
\* 36-43): the loop over the actions from the i-th on; best_q is <<>> for
\* float("-inf") and <<q>> for the number q.
RECURSIVE GreedyFrom(_, _, _, _, _)
GreedyFrom(V, s, i, best_a, best_q) ==
  IF i > Len(Actions) THEN best_a
  ELSE LET q == expected_return(V, s, Actions[i])
       IN IF best_q = <<>> \/ q > best_q[1]
          THEN GreedyFrom(V, s, i + 1, Actions[i], <<q>>)
          ELSE GreedyFrom(V, s, i + 1, best_a, best_q)

\* _derive_policy(env, V)
derive_policy(V) ==
  [s \in Cells(rows, cols) |->
     IF is_goal(s) THEN "U" ELSE GreedyFrom(V, s, 1, None, <<>>)]

\* _follow_policy(env, policy, max_steps): the loop with n steps left.
RECURSIVE FollowFrom(_, _, _, _)
FollowFrom(policy, s, p, n) ==
  IF n = 0 \/ is_goal(s) THEN p
  ELSE LET a == IF s \in DOMAIN policy THEN policy[s] ELSE "U"
           s2 == transitions(s, a).pairs[1][1]
       IN IF s2 = s THEN Append(p, s2)
          ELSE FollowFrom(policy, s2, Append(p, s2), n - 1)

\* the simulation cut off after rows * cols steps
follow_policy_short(policy, max_steps) == FollowFrom(policy, start, <<start>>, rows * cols)

follow_policy(policy, max_steps) == FollowFrom(policy, start, <<start>>, max_steps)

\* The assignments both MDP solvers make after following the policy
\* (value_iteration.py 84-90, policy_iteration.py 109-113).
Followed(m, p) ==
  LET solved == Len(p) > 0 /\ p[Len(p)] = goal
      length == IF solved THEN Max(0, Len(p) - 1) ELSE 0
  IN [m EXCEPT !.solved = solved,
               !.solution_path_length = length,
               !.solution_cost = length]

\* ---- value_iteration.py
\* max over the actions of expected_return(V, s, a), starting from -inf
BestReturn(V, s) ==
  Max(Max(Max(expected_return(V, s, Actions[1]), expected_return(V, s, Actions[2])),
          expected_return(V, s, Actions[3])), expected_return(V, s, Actions[4]))

\* One sweep (lines 65-76) from the i-th state on; acc carries V, delta and
\* visited_order.
RECURSIVE ViSweepFrom(_, _)
ViSweepFrom(i, acc) ==
  IF i > Len(states) THEN acc
  ELSE LET s == states[i]
       IN IF is_goal(s) THEN ViSweepFrom(i + 1, acc)
          ELSE LET best == BestReturn(acc.V, s)
               IN ViSweepFrom(i + 1,
                    [V |-> [acc.V EXCEPT ![s] = best],
                     delta |-> Max(acc.delta, Abs(acc.V[s] - best)),
                     visited_order |-> Append(acc.visited_order, s)])

\* The MazeEnv is built and solve_value_iteration(env, metrics, theta,
\* max_iters) is entered (lines 51-62).
StartVi ==
  /\ gpc \in {"done", "given"} /\ spc = "idle"
  /\ \E gm \in Gammas : \E th \in Thetas : \E mi \in 1 .. MaxSweeps :
       /\ env' = EnvOf(gm, DZero)
       /\ mdp' = [V |-> [s \in Cells(rows, cols) |-> 0], it |-> 0, delta |-> 0,
                  broke |-> FALSE, theta |-> th, max_iters |-> mi,
                  policy |-> <<>>, followed |-> <<>>]
       /\ metrics' = [NewMetrics EXCEPT
                        !.discount_factor = Some(gm),
                        !.convergence_threshold = Some(th),
                        !.step_reward = Some(EnvOf(gm, DZero).step_reward),
                        !.goal_reward = Some(EnvOf(gm, DZero).goal_reward),
                        !.wall_penalty = Some(EnvOf(gm, DZero).wall_reward)]
  /\ alg' = "value" /\ spc' = "sweep"
  /\ parents' = <<>> /\ visited_order' = <<>> /\ path' = <<>>
  /\ UNCHANGED <<frontier, seen, g, closed>>

\* an iteration that never takes the break of line 79
ViSweep_nobreak ==
  /\ alg = "value" /\ spc = "sweep"
  /\ ~mdp.broke /\ mdp.it < mdp.max_iters
  /\ \E acc \in {ViSweepFrom(1, [V |-> mdp.V, delta |-> 0,
                                  visited_order |-> visited_order])} :
        /\ mdp' = [mdp EXCEPT !.V = acc.V, !.delta = acc.delta, !.it = @ + 1,
                              !.broke = FALSE]
        /\ visited_order' = acc.visited_order
  /\ UNCHANGED <<alg, spc, frontier, seen, parents, g, closed, path, metrics, env>>

\* One iteration of the loop of lines 63-79.
ViSweep ==
  /\ alg = "value" /\ spc = "sweep"
  /\ ~mdp.broke /\ mdp.it < mdp.max_iters
  /\ \E acc \in {ViSweepFrom(1, [V |-> mdp.V, delta |-> 0,
                                  visited_order |-> visited_order])} :
        /\ mdp' = [mdp EXCEPT !.V = acc.V, !.delta = acc.delta, !.it = @ + 1,
                              !.broke = acc.delta < mdp.theta]
        /\ visited_order' = acc.visited_order
  /\ UNCHANGED <<alg, spc, frontier, seen, parents, g, closed, path, metrics, env>>

\* lines 81-93 returning the followed path whether or not it ends at the goal
ViReturn_rawpath ==
  /\ alg = "value" /\ spc = "sweep"
  /\ mdp.broke \/ mdp.it = mdp.max_iters
  /\ \E policy \in {derive_policy(mdp.V)} :
     \E p \in {follow_policy(policy, rows * cols * 4)} :
     \E m \in {Followed(metrics, p)} :
        /\ mdp' = [mdp EXCEPT !.policy = policy, !.followed = p]
        /\ metrics' = [m EXCEPT !.value_iteration_steps = Some(mdp.it),
                                !.final_convergence_error = Some(mdp.delta)]
        /\ path' = p
  /\ spc' = "returned"
  /\ UNCHANGED <<alg, frontier, seen, parents, visited_order, g, closed, env>>

\* The loop has ended (break, or range exhausted): lines 81-93.
ViReturn ==
  /\ alg = "value" /\ spc = "sweep"
  /\ mdp.broke \/ mdp.it = mdp.max_iters
  /\ \E policy \in {derive_policy(mdp.V)} :
     \E p \in {follow_policy(policy, rows * cols * 4)} :
     \E m \in {Followed(metrics, p)} :
        /\ mdp' = [mdp EXCEPT !.policy = policy, !.followed = p]
        /\ metrics' = [m EXCEPT !.value_iteration_steps = Some(mdp.it),
                                !.final_convergence_error = Some(mdp.delta)]
        /\ path' = IF m.solved THEN p ELSE <<>>
  /\ spc' = "returned"
  /\ UNCHANGED <<alg, frontier, seen, parents, visited_order, g, closed, env>>

\* ---- policy_iteration.py
\* One sweep of _policy_evaluation (lines 18-24) from the i-th state on.
RECURSIVE EvalSweepFrom(_, _, _)
EvalSweepFrom(policy, i, acc) ==
  IF i > Len(states) THEN acc
  ELSE LET s == states[i]
       IN IF is_goal(s) THEN EvalSweepFrom(policy, i + 1, acc)
          ELSE LET v == expected_return(acc.V, s, policy[s])
               IN EvalSweepFrom(policy, i + 1,
                    [V |-> [acc.V EXCEPT ![s] = v],
                     delta |-> Max(acc.delta, Abs(acc.V[s] - v))])

\* The loop of _policy_evaluation after acc.it sweeps; acc.tables lists the
\* table V as it stood at the end of each sweep, as the list of its values
\* in the order of states().
RECURSIVE EvalFrom(_, _, _, _)
EvalFrom(policy, acc, theta, max_eval_iters) ==
  IF acc.it >= max_eval_iters THEN acc
  ELSE LET sw == EvalSweepFrom(policy, 1, [V |-> acc.V, delta |-> 0])
           nxt == [V |-> sw.V, delta |-> sw.delta, it |-> acc.it + 1,
                   tables |-> Append(acc.tables, [i \in 1 .. Len(states) |-> sw.V[states[i]]])]
       IN IF sw.delta < theta THEN nxt
          ELSE EvalFrom(policy, nxt, theta, max_eval_iters)

\* _policy_evaluation(env, policy, theta, max_eval_iters): V, delta, it
policy_evaluation(policy, theta, max_eval_iters) ==
  EvalFrom(policy, [V |-> [s \in Cells(rows, cols) |-> 0], delta |-> 0, it |-> 0,
                    tables |-> <<>>],
           theta, max_eval_iters)

\* _policy_improvement(env, V, policy) from the i-th state on: the policy as
\* updated in place, and stable.
RECURSIVE ImproveFrom(_, _, _)
ImproveFrom(V, i, acc) ==
  IF i > Len(states) THEN acc
  ELSE LET s == states[i]
       IN IF is_goal(s) THEN ImproveFrom(V, i + 1, acc)
          ELSE LET old == acc.policy[s]
                   best_a == GreedyFrom(V, s, 1, old, <<>>)
               IN ImproveFrom(V, i + 1,
                    [policy |-> [acc.policy EXCEPT ![s] = best_a],
                     stable |-> acc.stable /\ best_a = old])

\* an improvement pass that keeps the state's action when it is among the best
policy_improvement_keepold(V, policy) ==
  LET keeps(s) == \A i \in 1 .. Len(Actions) :
                    expected_return(V, s, Actions[i]) <= expected_return(V, s, policy[s])
      new == [s \in Cells(rows, cols) |->
                IF is_goal(s) \/ keeps(s) THEN policy[s]
                ELSE GreedyFrom(V, s, 1, policy[s], <<>>)]
  IN [policy |-> new, stable |-> new = policy]

policy_improvement(V, policy) == ImproveFrom(V, 1, [policy |-> policy, stable |-> TRUE])

\* The MazeEnv is built and solve_policy_iteration(env, metrics, theta,
\* max_policy_iters, max_eval_iters) is entered (lines 77-90).
StartPi ==
  /\ gpc \in {"done", "given"} /\ spc = "idle"
  /\ \E gm \in Gammas : \E th \in Thetas : \E mpi \in 1 .. MaxPolicyIters :
       /\ env' = EnvOf(gm, DZero)
       /\ mdp' = [policy |-> [s \in Cells(rows, cols) |-> "R"],
                  V |-> <<>>, eval_tables |-> <<>>,
                  final_delta |-> 0, total_eval_sweeps |-> 0,
                  pi_it |-> 0, stable |-> FALSE, theta |-> th,
                  max_policy_iters |-> mpi, max_eval_iters |-> MaxSweeps,
                  followed |-> <<>>]
       /\ metrics' = [NewMetrics EXCEPT
                        !.discount_factor = Some(gm),
                        !.convergence_threshold = Some(th),
                        !.step_reward = Some(EnvOf(gm, DZero).step_reward),
                        !.goal_reward = Some(EnvOf(gm, DZero).goal_reward),
                        !.wall_penalty = Some(EnvOf(gm, DZero).wall_reward)]
  /\ alg' = "policy" /\ spc' = "iterate"
  /\ parents' = <<>> /\ visited_order' = <<>> /\ path' = <<>>
  /\ UNCHANGED <<frontier, seen, g, closed>>

\* One iteration of the loop of lines 92-106.
PiIterate ==
  /\ alg = "policy" /\ spc = "iterate"
  /\ ~mdp.stable /\ mdp.pi_it < mdp.max_policy_iters
  /\ \E ev \in {policy_evaluation(mdp.policy, mdp.theta, mdp.max_eval_iters)} :
     \E im \in {policy_improvement(ev.V, mdp.policy)} :
     \E total \in {mdp.total_eval_sweeps + ev.it} :
        /\ mdp' = [mdp EXCEPT !.V = ev.V, !.eval_tables = ev.tables,
                              !.final_delta = ev.delta,
                              !.total_eval_sweeps = total, !.pi_it = @ + 1,
                              !.policy = im.policy, !.stable = im.stable]
        /\ metrics' = IF im.stable
                      THEN [metrics EXCEPT
                              !.policy_iteration_steps = Some(mdp.pi_it + 1),
                              !.final_convergence_error = Some(ev.delta),
                              !.policy_evaluation_steps = Some(total)]
                      ELSE metrics
  /\ visited_order' = visited_order \o states
  /\ UNCHANGED <<alg, spc, frontier, seen, parents, g, closed, path, env>>

\* the end of the loop, with an exhausted range treated as a failure
PiReturn_raises ==
  /\ alg = "policy" /\ spc = "iterate"
  /\ mdp.stable \/ mdp.pi_it = mdp.max_policy_iters
  /\ \E p \in {follow_policy(mdp.policy, rows * cols * 4)} :
     \E m \in {Followed(metrics, p)} :
        /\ mdp' = [mdp EXCEPT !.followed = p]
        /\ metrics' = m
        /\ path' = IF m.solved THEN p ELSE <<>>
  /\ spc' = IF mdp.stable THEN "returned" ELSE "raised"
  /\ UNCHANGED <<alg, frontier, seen, parents, visited_order, g, closed, env>>

\* The loop has ended (break, or range exhausted): lines 108-115.
PiReturn ==
  /\ alg = "policy" /\ spc = "iterate"
  /\ mdp.stable \/ mdp.pi_it = mdp.max_policy_iters
  /\ \E p \in {follow_policy(mdp.policy, rows * cols * 4)} :
     \E m \in {Followed(metrics, p)} :
        /\ mdp' = [mdp EXCEPT !.followed = p]
        /\ metrics' = m
        /\ path' = IF m.solved THEN p ELSE <<>>
  /\ spc' = "returned"
  /\ UNCHANGED <<alg, frontier, seen, parents, visited_order, g, closed, env>>

\* ------------------------------------------------- a maze and one solver
\* The pairs of grid-adjacent cells of an R x C grid.
GridEdges(R, C) ==
  {{p[1], p[2]} : p \in {q \in Cells(R, C) \X Cells(R, C) : Adjacent(q[1], q[2])}}

\* The wall grid in which exactly the pairs in open have no wall between them.
WallsOf(R, C, open) ==
  [c \in Cells(R, C) |->
     (IF {c, <<c[1] - 1, c[2]>>} \in open THEN 0 ELSE N)
     + (IF {c, <<c[1], c[2] + 1>>} \in open THEN 0 ELSE E)
     + (IF {c, <<c[1] + 1, c[2]>>} \in open THEN 0 ELSE S)
     + (IF {c, <<c[1], c[2] - 1>>} \in open THEN 0 ELSE W)]

GivenDims == {d \in Dims : d[1] * d[2] <= MaxGivenCells}

\* The wall bits that may be cleared on one side only: none, or one bit of the
\* cell st (a one-way opening, or an opening in the outer wall).
Defects(st) == {None} \cup ({st} \X {N, E, S, W})

WithDefect(w, d) == IF d = None THEN w ELSE [w EXCEPT ![d[1]] = ClearBit(@, d[2])]

\* The goals given to generate_maze: the default corner, and a cell outside
\* the grid.
Goals(R, C) == {DefaultGoal(R, C), <<R, C>>}

\* A Maze value built directly by the caller.
GivenMaze ==
  \E d \in GivenDims : \E open \in SUBSET GridEdges(d[1], d[2]) :
    \E st \in Cells(d[1], d[2]) : \E df \in Defects(st) :
      /\ rows = d[1] /\ cols = d[2] /\ start = st /\ goal = DefaultGoal(d[1], d[2])
      /\ walls = WithDefect(WallsOf(d[1], d[2], open), df)
      /\ visited = <<>> /\ stack = <<>>
      /\ gpc = "given"
      /\ rng = [created |-> 0, draws |-> <<>>]

Init ==
  /\ \/ \E d \in Dims : \E st \in Cells(d[1], d[2]) : \E gl \in Goals(d[1], d[2]) :
          GenCall(d[1], d[2], st, gl)
     \/ GivenMaze
  /\ SolverIdle /\ QueueIdle /\ EnvIdle

Next ==
  \/ GenEntry /\ UNCHANGED <<solverVars, pqVars, envVars>>
  \/ Carve /\ UNCHANGED <<solverVars, pqVars, envVars>>
  \/ Backtrack /\ UNCHANGED <<solverVars, pqVars, envVars>>
  \/ GenReturn /\ UNCHANGED <<solverVars, pqVars, envVars>>
  \/ StartBfs /\ UNCHANGED <<mazeVars, lastOp, lowest, nops, scen, returned, envVars>>
  \/ BfsExpand /\ UNCHANGED <<mazeVars, lastOp, lowest, nops, scen, returned, envVars>>
  \/ BfsGoal /\ UNCHANGED <<mazeVars, lastOp, lowest, nops, scen, returned, envVars>>
  \/ BfsExhausted /\ UNCHANGED <<mazeVars, lastOp, lowest, nops, scen, returned, envVars>>
  \/ StartDfs /\ UNCHANGED <<mazeVars, lastOp, lowest, nops, scen, returned, envVars>>
  \/ DfsExpand /\ UNCHANGED <<mazeVars, lastOp, lowest, nops, scen, returned, envVars>>
  \/ DfsGoal /\ UNCHANGED <<mazeVars, lastOp, lowest, nops, scen, returned, envVars>>
  \/ DfsExhausted /\ UNCHANGED <<mazeVars, lastOp, lowest, nops, scen, returned, envVars>>
  \/ StartAstar /\ UNCHANGED <<mazeVars, lastOp, lowest, nops, scen, returned, envVars>>
  \/ AstarPopped /\ UNCHANGED <<mazeVars, lastOp, lowest, nops, scen, returned, envVars>>
  \/ AstarExhausted /\ UNCHANGED <<mazeVars, lastOp, lowest, nops, scen, returned, envVars>>

\* Each call is a sequential loop: an enabled iteration is executed.
Spec == Init /\ [][Next]_vars /\ WF_vars(Next)

\* ------------------------------------------- calls on a MazeEnv
\* The slip_prob settings: 0.0 (the default), the double nearest 0.005, 0.5
\* and 1.0.
SlipProbs == {DZero, <<327, 11408506, 14763952>>, <<2 ^ 15, 0, 0>>, DOne}

\* The cells whose wall bits may disagree with the neighbour's: the two
\* corners that are neither the default start nor the default goal.
DefectCells(R, C) == {<<0, C - 1>>, <<R - 1, 0>>}

\* A Maze value built directly, with at most one wall bit cleared on one side
\* only (a one-way opening, or an opening in the outer wall).
EnvMaze ==
  \E d \in GivenDims : \E open \in SUBSET GridEdges(d[1], d[2]) :
    \E df \in {None} \cup (DefectCells(d[1], d[2]) \X {N, E, S, W}) :
      /\ rows = d[1] /\ cols = d[2]
      /\ start = <<0, 0>> /\ goal = DefaultGoal(d[1], d[2])
      /\ walls = WithDefect(WallsOf(d[1], d[2], open), df)
      /\ visited = <<>> /\ stack = <<>>
      /\ gpc = "given"
      /\ rng = [created |-> 0, draws |-> <<>>]

InitEnv ==
  /\ EnvMaze
  /\ SolverIdle /\ QueueIdle
  /\ \E sp \in SlipProbs : env = EnvOf(1, sp)
  /\ lastCall = [op |-> "none"]
  /\ mdp = <<>>

\* The action arguments: the four actions and one symbol outside them.
ActionArgs == {Actions[i] : i \in 1 .. Len(Actions)} \cup {"X"}

CallNeighbors ==
  /\ lastCall.op = "none"
  /\ \E s \in Cells(rows, cols) :
       lastCall' = [op |-> "neighbors", s |-> s, returned |-> neighbors(s)]
  /\ UNCHANGED <<mazeVars, solverVars, pqVars, env, mdp>>

CallMove ==
  /\ lastCall.op = "none"
  /\ \E s \in Cells(rows, cols) : \E a \in ActionArgs :
       lastCall' = [op |-> "move", s |-> s, a |-> a,
                    raised |-> move(s, a).raised, returned |-> move(s, a).to]
  /\ UNCHANGED <<mazeVars, solverVars, pqVars, env, mdp>>

CallTransitions ==
  /\ lastCall.op = "none"
  /\ \E s \in Cells(rows, cols) : \E a \in ActionArgs :
       lastCall' = [op |-> "transitions", s |-> s, a |-> a,
                    raised |-> transitions(s, a).raised,
                    returned |-> transitions(s, a).pairs]
  /\ UNCHANGED <<mazeVars, solverVars, pqVars, env, mdp>>

CallReward ==
  /\ lastCall.op = "none"
  /\ \E s \in Cells(rows, cols) : \E a \in ActionArgs \ {"X"} :
       \E s2 \in Cells(rows, cols) :
         lastCall' = [op |-> "reward", s |-> s, a |-> a, s2 |-> s2,
                      returned |-> reward(s, a, s2)]
  /\ UNCHANGED <<mazeVars, solverVars, pqVars, env, mdp>>

\* The policies handed to _follow_policy: the empty dict (every lookup gives
\* the default "U"), and one action for the cells left of the last column
\* with one action for the last column.
PolicyArgs ==
  {<<>>} \cup
  {[c \in Cells(rows, cols) |-> IF c[2] < cols - 1 THEN ab[1] ELSE ab[2]] :
     ab \in (ActionArgs \ {"X"}) \X (ActionArgs \ {"X"})}

\* The step limits handed to _follow_policy: 1, and the solvers' rows*cols*4.
MaxStepsArgs == {1, rows * cols * 4}

\* A call _follow_policy(env, policy, max_steps) on the env, whatever its
\* slip_prob.
CallFollowPolicy ==
  /\ lastCall.op = "none"
  /\ \E policy \in PolicyArgs : \E max_steps \in MaxStepsArgs :
       lastCall' = [op |-> "follow_policy", policy |-> policy,
                    max_steps |-> max_steps,
                    returned |-> follow_policy(policy, max_steps)]
  /\ UNCHANGED <<mazeVars, solverVars, pqVars, env, mdp>>

NextEnv ==
  \/ CallNeighbors
  \/ CallMove
  \/ CallTransitions
  \/ CallReward
  \/ CallFollowPolicy

SpecEnv == InitEnv /\ [][NextEnv]_vars

\* ------------------------------------- a maze and one of the five solvers
\* A Maze value built directly, with any start cell and the default goal; its
\* walls agree on both sides, but for the east wall of the start cell, which
\* may be open on that side only.
MdpMaze ==
  \E d \in GivenDims : \E open \in SUBSET GridEdges(d[1], d[2]) :
    \E st \in Cells(d[1], d[2]) : \E df \in {None, <<st, E>>} :
      /\ rows = d[1] /\ cols = d[2] /\ start = st /\ goal = DefaultGoal(d[1], d[2])
      /\ walls = WithDefect(WallsOf(d[1], d[2], open), df)
      /\ visited = <<>> /\ stack = <<>>
      /\ gpc = "given"
      /\ rng = [created |-> 0, draws |-> <<>>]

InitMdp ==
  /\ MdpMaze
  /\ SolverIdle /\ QueueIdle /\ EnvIdle

NextMdp ==
  \/ StartBfs /\ UNCHANGED <<mazeVars, lastOp, lowest, nops, scen, returned, envVars>>
  \/ BfsExpand /\ UNCHANGED <<mazeVars, lastOp, lowest, nops, scen, returned, envVars>>
  \/ BfsGoal /\ UNCHANGED <<mazeVars, lastOp, lowest, nops, scen, returned, envVars>>
  \/ BfsExhausted /\ UNCHANGED <<mazeVars, lastOp, lowest, nops, scen, returned, envVars>>
  \/ StartDfs /\ UNCHANGED <<mazeVars, lastOp, lowest, nops, scen, returned, envVars>>
  \/ DfsExpand /\ UNCHANGED <<mazeVars, lastOp, lowest, nops, scen, returned, envVars>>
  \/ DfsGoal /\ UNCHANGED <<mazeVars, lastOp, lowest, nops, scen, returned, envVars>>
  \/ DfsExhausted /\ UNCHANGED <<mazeVars, lastOp, lowest, nops, scen, returned, envVars>>
  \/ StartAstar /\ UNCHANGED <<mazeVars, lastOp, lowest, nops, scen, returned, envVars>>
  \/ AstarPopped /\ UNCHANGED <<mazeVars, lastOp, lowest, nops, scen, returned, envVars>>
  \/ AstarExhausted /\ UNCHANGED <<mazeVars, lastOp, lowest, nops, scen, returned, envVars>>
  \/ StartVi /\ UNCHANGED <<mazeVars, pqVars, lastCall>>
  \/ ViSweep /\ UNCHANGED <<mazeVars, pqVars, lastCall>>
  \/ ViReturn /\ UNCHANGED <<mazeVars, pqVars, lastCall>>
  \/ StartPi /\ UNCHANGED <<mazeVars, pqVars, lastCall>>
  \/ PiIterate /\ UNCHANGED <<mazeVars, pqVars, lastCall>>
  \/ PiReturn /\ UNCHANGED <<mazeVars, pqVars, lastCall>>

SpecMdp == InitMdp /\ [][NextMdp]_vars

\* ------------------------------- a maze with cycles and a search solver
\* The grids of the mazes with cycles: wider than the others, so that two
\* routes of different length lead to one cell.
BraidDims ==
  {d \in (2 .. MaxRows) \X (2 .. MaxBraidCols) : d[1] * d[2] <= MaxBraidCells}

\* A Maze value built directly, with the default start and goal and with
\* symmetric walls: at least as many openings as a perfect maze has (a
\* generated maze with further walls taken out is one of these).
BraidMaze ==
  \E d \in BraidDims :
    \E open \in {o \in SUBSET GridEdges(d[1], d[2]) :
                   Cardinality(o) >= d[1] * d[2] - 1} :
      /\ rows = d[1] /\ cols = d[2]
      /\ start = <<0, 0>> /\ goal = DefaultGoal(d[1], d[2])
      /\ walls = WallsOf(d[1], d[2], open)
      /\ visited = <<>> /\ stack = <<>>
      /\ gpc = "given"
      /\ rng = [created |-> 0, draws |-> <<>>]

InitBraid ==
  /\ BraidMaze
  /\ SolverIdle /\ QueueIdle /\ EnvIdle

NextBraid ==
  \/ StartBfs /\ UNCHANGED <<mazeVars, lastOp, lowest, nops, scen, returned, envVars>>
  \/ BfsExpand /\ UNCHANGED <<mazeVars, lastOp, lowest, nops, scen, returned, envVars>>
  \/ BfsGoal /\ UNCHANGED <<mazeVars, lastOp, lowest, nops, scen, returned, envVars>>
  \/ BfsExhausted /\ UNCHANGED <<mazeVars, lastOp, lowest, nops, scen, returned, envVars>>
  \/ StartDfs /\ UNCHANGED <<mazeVars, lastOp, lowest, nops, scen, returned, envVars>>
  \/ DfsExpand /\ UNCHANGED <<mazeVars, lastOp, lowest, nops, scen, returned, envVars>>
  \/ DfsGoal /\ UNCHANGED <<mazeVars, lastOp, lowest, nops, scen, returned, envVars>>
  \/ DfsExhausted /\ UNCHANGED <<mazeVars, lastOp, lowest, nops, scen, returned, envVars>>
  \/ StartAstar /\ UNCHANGED <<mazeVars, lastOp, lowest, nops, scen, returned, envVars>>
  \/ AstarPopped /\ UNCHANGED <<mazeVars, lastOp, lowest, nops, scen, returned, envVars>>
  \/ AstarExhausted /\ UNCHANGED <<mazeVars, lastOp, lowest, nops, scen, returned, envVars>>

SpecBraid == InitBraid /\ [][NextBraid]_vars

\* ================================================================ claims
LastPopReturned == lastOp.op = "pop" /\ ~lastOp.raised

LastPopRaised == lastOp.op = "pop" /\ lastOp.raised

\* C5: every pair pop returns carries the lowest priority pushed for its item
\* so far; after push(x,5), push(x,3), push(y,4) the pops return (x,3), then
\* (y,4), and the third pop fails as empty.
C5_PopReturnsLowestPushed ==
  /\ LastPopReturned => lastOp.priority = lowest[lastOp.item].priority
  /\ (scen = nops /\ nops = 4) =>
       LastPopReturned /\ lastOp.item = "x" /\ lastOp.priority = F(3, 0)
  /\ (scen = nops /\ nops = 5) =>
       LastPopReturned /\ lastOp.item = "y" /\ lastOp.priority = F(4, 0)
  /\ (scen = nops /\ nops = 6) => LastPopRaised

\* The documented example was run to its end.
C5_Witness == scen = 6 /\ nops = 6 /\ lastOp.op = "pop"

\* C6: a successful pop returns, among the entries live just before it, one of
\* minimum priority, and among those of equal priority the earliest pushed.
C6_PopReturnsEarliestMinimum ==
  LastPopReturned =>
    \E e \in Live(lastOp.before) :
      /\ e.item = lastOp.item /\ e.priority = lastOp.priority
      /\ \A o \in Live(lastOp.before) :
           /\ ~FLess(o.priority, e.priority)
           /\ o.priority = e.priority => lowest[e.item].at <= lowest[o.item].at

\* A pop that had to choose between two live entries of equal priority, with
\* a stale entry in the heap as well.
C6_Witness ==
  /\ LastPopReturned
  /\ \E o \in Live(lastOp.before) :
       o.item # lastOp.item /\ o.priority = lastOp.priority
  /\ lastOp.before.heap # Live(lastOp.before)

\* The number of distinct items that still have a live entry.
LogicalSize(pq) == Cardinality({e.item : e \in Live(pq)})

\* C7: len() is the number of distinct items that still have a live entry; it
\* is 0 whenever pop would fail as empty.
C7_LenIsLogicalSize ==
  /\ len(openpq) = LogicalSize(openpq)
  /\ pop(openpq).raised => len(openpq) = 0

\* C8: pop raises exactly when the queue holds no live entry, and empty() is
\* true in exactly those states.
C8_EmptyIffNoLiveEntry ==
  /\ lastOp.op = "pop" => (lastOp.raised <=> Live(lastOp.before) = {})
  /\ empty(openpq) <=> Live(openpq) = {}
  /\ empty(openpq) <=> pop(openpq).raised

\* A pop that raised on a queue whose heap held only stale entries.
C8_Witness ==
  /\ LastPopRaised
  /\ lastOp.before.heap # {}
  /\ empty(lastOp.before)

\* ---- the open-cell graph as the claims speak of it
\* Cells within n open steps of the cells in set.
RECURSIVE Within(_, _, _)
Within(w, set, n) ==
  IF n = 0 THEN set
  ELSE Within(w, set \cup {b \in DOMAIN w : \E a \in set : OpenEdge(w, a, b)}, n - 1)

\* Edge count of a shortest open path from a to b (b reachable from a).
RECURSIVE DistFrom(_, _, _, _)
DistFrom(w, a, b, n) == IF b \in Within(w, {a}, n) THEN n ELSE DistFrom(w, a, b, n + 1)

Dist(w, a, b) == DistFrom(w, a, b, 0)

Reachable(w, a, b) == b \in Closure(w, {a})

\* The cells the graph view leads to from a: the grid cells next to a on a
\* side where a has no wall.
Leads(a) ==
  {b \in {<<a[1] - 1, a[2]>>, <<a[1], a[2] + 1>>, <<a[1] + 1, a[2]>>, <<a[1], a[2] - 1>>}
          \cap DOMAIN walls : ~has_wall(walls, a, SideBit(a, b))}

\* The cells the graph view reaches from the cells in done through those in
\* edge (the cells of done whose successors are still to be added).
RECURSIVE GraphClosure(_, _)
GraphClosure(done, edge) ==
  IF edge = {} THEN done
  ELSE GraphClosure(done \cup UNION {Leads(a) : a \in edge},
                    UNION {Leads(a) : a \in edge} \ done)

\* p runs from start to goal through open edges.
OpenPath(p) ==
  /\ p # <<>> /\ p[1] = start /\ p[Len(p)] = goal
  /\ \A i \in 1 .. Len(p) - 1 : OpenEdge(walls, p[i], p[i + 1])

Returned == spc = "returned"

\* A quantity that bounds the iterations a solver's loop has left: every cell
\* is expanded at most once, and an iteration of A* that expands nothing
\* removes an entry from the heap (an expansion adds at most four).  The
\* branches of each loop cover every state of the loop, so a run in which an
\* iteration always lowers this measure or returns, and the measure stays
\* non-negative, ends with a return.
LoopMeasure ==
  IF alg \in {"bfs", "dfs"}
  THEN rows * cols - Len(visited_order)
  ELSE Cardinality(openpq.heap) + 5 * (rows * cols - Cardinality(closed))

\* An iteration either returns or lowers the measure.
LoopStepped == spc' = "returned" \/ (spc' = "loop" /\ LoopMeasure' < LoopMeasure)

\* C1: generate_maze (called with rows >= 2 and cols >= 2) terminates, and the
\* open-cell graph of the maze it returns is connected with exactly
\* rows*cols - 1 edges.
C1_GeneratesSpanningTree ==
  /\ (rows >= 2 /\ cols >= 2) => <>(gpc = "done")
  /\ [](gpc = "done" =>
          /\ Connected(walls)
          /\ Cardinality(OpenEdges(walls)) = rows * cols - 1)

\* A returned maze of more than four cells carved from a start other than (0,0).
C1_Witness == gpc = "done" /\ rows * cols > 4 /\ start # <<0, 0>>

\* C10: at every iteration boundary of the carving loop and in the returned
\* maze, the wall bits on the two sides of every pair of adjacent cells agree.
C10_NoOneWayWall == WallsSymmetric(walls)

\* The loop is under way and has carved at least two passages.
C10_Witness ==
  gpc = "carve" /\ stack # <<>> /\ Cardinality(OpenEdges(walls)) >= 2

DefaultCall == gpc = "done" /\ start = <<0, 0>> /\ goal = DefaultGoal(rows, cols)

\* C2: on a maze returned by generate_maze with the default start and goal,
\* BFS, DFS and A* (either heuristic) end with solved = true and a path from
\* start to goal whose consecutive cells are adjacent with no wall between.
C2_GeneratedMazeIsSolved ==
  /\ [](DefaultCall /\ Returned => metrics.solved /\ OpenPath(path))
  /\ [](DefaultCall /\ spc = "loop" => LoopMeasure >= 0)
  /\ [][DefaultCall /\ spc = "loop" => LoopStepped]_vars

\* Each solver has returned on a generated maze of more than four cells.
C2_Witness ==
  DefaultCall /\ Returned /\ rows * cols > 4 /\ Len(path) > 3
  /\ alg = "astar_euclidean"

\* C3: on a maze with symmetric walls and a reachable goal, the path solve_bfs
\* returns has as many edges as a shortest open path, and
\* solution_path_length is that number.
C3_BfsPathIsShortest ==
  (Returned /\ alg = "bfs" /\ WallsSymmetric(walls) /\ Reachable(walls, start, goal)) =>
     /\ OpenPath(path)
     /\ Len(path) - 1 = Dist(walls, start, goal)
     /\ metrics.solution_path_length = Dist(walls, start, goal)

\* BFS returned on a maze with a cycle, where the goal is at least two steps away.
C3_Witness ==
  /\ Returned /\ alg = "bfs" /\ WallsSymmetric(walls) /\ Reachable(walls, start, goal)
  /\ Cardinality(OpenEdges(walls)) >= rows * cols
  /\ Dist(walls, start, goal) >= 2

\* The path solve_bfs returns on the maze: its loop run to the end.
RECURSIVE BfsRun(_, _, _)
BfsRun(q, vis, par) ==
  IF q = <<>> THEN <<>>
  ELSE LET s == popleft(q).s
       IN IF s = goal THEN reconstruct_path(par, start, goal)
          ELSE LET acc == Discover(neighbors(s), 1, s,
                            [visited |-> vis, parents |-> par,
                             frontier |-> popleft(q).rest, metrics |-> NewMetrics])
               IN BfsRun(acc.frontier, acc.visited, acc.parents)

BfsPath == BfsRun(<<start>>, {start}, Put(<<>>, start, None))

\* C4: on a maze with symmetric walls and a reachable goal, A* with either
\* heuristic returns a path with as many edges as the path solve_bfs returns.
C4_AstarPathLengthEqualsBfs ==
  /\ (Returned /\ alg = "bfs") => path = BfsPath
  /\ (Returned /\ IsAstar /\ WallsSymmetric(walls) /\ Reachable(walls, start, goal)) =>
        /\ path # <<>>
        /\ Len(path) = Len(BfsPath)

\* A* returned on a maze with a cycle whose goal is at least two steps away.
C4_Witness ==
  /\ Returned /\ alg = "astar_euclidean" /\ WallsSymmetric(walls)
  /\ Reachable(walls, start, goal)
  /\ Cardinality(OpenEdges(walls)) >= rows * cols
  /\ Len(path) >= 3

GoalUnreachable == goal \notin GraphClosure({start}, {start})

\* C9: when the goal cannot be reached from start, BFS, DFS and A* terminate,
\* raise nothing and return an empty path with solved = false.
C9_UnreachableGoalIsUnsolved ==
  /\ [](spc \notin {"idle", "loop", "returned"} => ~GoalUnreachable)
  /\ [](Returned /\ GoalUnreachable => ~metrics.solved /\ path = <<>>)
  /\ [](spc = "loop" /\ GoalUnreachable => LoopMeasure >= 0)
  /\ [][spc = "loop" /\ GoalUnreachable => LoopStepped]_vars

\* A* came back unsolved from a maze whose goal is walled off inside the grid.
C9_Witness ==
  /\ Returned /\ IsAstar /\ InGrid(rows, cols, goal)
  /\ Len(visited_order) >= 2 /\ GoalUnreachable

\* ------------------------------------------------------------------ C11
\* The candidates of lines 61-65 for the cell cur, given the visited marks
\* vis: the grid neighbours to the north, east, south and west, in that
\* order, that are in bounds and unvisited.
Candidates(R, C, vis, cur) ==
  LET unvisited(n) == InGrid(R, C, n) /\ ~vis[n]
  IN SelectSeq(<< <<cur[1] - 1, cur[2]>>, <<cur[1], cur[2] + 1>>,
                  <<cur[1] + 1, cur[2]>>, <<cur[1], cur[2] - 1>> >>, unvisited)

\* A second run of the loop of lines 57-78 that is handed the draws of the
\* first: the wall grid it has built when the draws are used up.
RECURSIVE Rerun(_, _, _, _, _, _)
Rerun(R, C, w, vis, stk, draws) ==
  IF draws = <<>> \/ stk = <<>> THEN w
  ELSE LET cur == stk[Len(stk)]
           cand == Candidates(R, C, vis, cur)
       IN IF cand = <<>>
          THEN Rerun(R, C, w, vis, SubSeq(stk, 1, Len(stk) - 1), draws)
          ELSE IF Head(draws) > Len(cand) THEN w
          ELSE LET nxt == cand[Head(draws)]
               IN Rerun(R, C,
                        [w EXCEPT ![cur] = ClearBit(@, SideBit(cur, nxt)),
                                  ![nxt] = ClearBit(@, SideBit(nxt, cur))],
                        [vis EXCEPT ![nxt] = TRUE], Append(stk, nxt), Tail(draws))

SecondRun ==
  Rerun(rows, cols, [c \in Cells(rows, cols) |-> AllWalls],
        [c \in Cells(rows, cols) |-> c = start], <<start>>, rng.draws)

\* C11: the wall grid of generate_maze is a function of rows, cols, start and
\* the sequence of draws (a second run given the same draws builds the same
\* grid); the random source is created once per call, is consulted exactly
\* once in an iteration that carves and not at all in one that backtracks.
C11_SameDrawsSameGrid ==
  /\ [](gpc \in {"carve", "done"} => rng.created = 1 /\ walls = SecondRun)
  /\ [][gpc = "carve" =>
          IF Len(stack') > Len(stack)
          THEN Len(rng'.draws) = Len(rng.draws) + 1
          ELSE rng' = rng]_vars

\* A maze of more than four cells has been returned, and some draw took a
\* candidate other than the first.
C11_Witness ==
  /\ gpc = "done" /\ rows * cols > 4
  /\ Len(rng.draws) = rows * cols - 1
  /\ \E i \in 1 .. Len(rng.draws) : rng.draws[i] > 1

\* ------------------------------------------------------------------ C12
\* C12: a call with rows < 2 or cols < 2 ends by raising, with no wall grid
\* built; a call with rows >= 2 and cols >= 2 never raises.
C12_InvalidDimensionsRaise ==
  /\ [](rows < 2 \/ cols < 2 => gpc \in {"call", "raised"} /\ walls = <<>>)
  /\ [](rows >= 2 /\ cols >= 2 => gpc # "raised")
  /\ (rows < 2 \/ cols < 2) => <>(gpc = "raised")

\* A call with enough rows and too few columns has raised.
C12_Witness == gpc = "raised" /\ rows >= 2 /\ cols = 1

\* ------------------------------------------------------------ C13 - C17
\* The cell one step from s in the direction of action a.
StepCell(s, a) ==
  IF a = "U" THEN <<s[1] - 1, s[2]>>
  ELSE IF a = "R" THEN <<s[1], s[2] + 1>>
  ELSE IF a = "D" THEN <<s[1] + 1, s[2]>>
  ELSE <<s[1], s[2] - 1>>

\* The two actions orthogonal to a.
Orthogonal(a) == IF a \in {"U", "D"} THEN <<"L", "R">> ELSE <<"U", "D">>

\* The three outcomes of a slipping action with their weights, intended
\* move first.
Outcomes(s, a) ==
  << <<move(s, a).to, DSub(DOne, env.slip_prob)>>,
     <<move(s, Orthogonal(a)[1]).to, DHalf(env.slip_prob)>>,
     <<move(s, Orthogonal(a)[2]).to, DHalf(env.slip_prob)>> >>

\* The weights of the outcomes that land on cell t, added in order.
WeightOn(outs, t) ==
  LET w(i) == IF outs[i][1] = t THEN outs[i][2] ELSE DZero
  IN DAdd(DAdd(DAdd(DZero, w(1)), w(2)), w(3))

\* The sum of the probabilities of a list of pairs, as a real number.
RECURSIVE ExactSum(_)
ExactSum(pairs) ==
  IF pairs = <<>> THEN DZero ELSE DExactAdd(pairs[1][2], ExactSum(Tail(pairs)))

\* The pairs are the ones the three cases prescribe, with pairwise distinct
\* destinations.
PairsAsPrescribed(c) ==
  /\ \A i, j \in 1 .. Len(c.returned) :
       c.returned[i][1] = c.returned[j][1] => i = j
  /\ IF c.s = goal THEN c.returned = << <<c.s, DOne>> >>
     ELSE IF ~DLess(DZero, env.slip_prob)
     THEN c.returned = << <<move(c.s, c.a).to, DOne>> >>
     ELSE LET outs == Outcomes(c.s, c.a)
          IN /\ {c.returned[i][1] : i \in 1 .. Len(c.returned)}
                  = {outs[i][1] : i \in 1 .. 3}
             /\ \A i \in 1 .. Len(c.returned) :
                  c.returned[i][2] = WeightOn(outs, c.returned[i][1])

TransitionsCalled == lastCall.op = "transitions" /\ InActions(lastCall.a)

\* | x - 1 | <= 2^-52
NearOne(x) ==
  IF DLess(x, DOne) THEN ~DLess(<<0, 0, 2 ^ 12>>, DExactSub(DOne, x))
  ELSE ~DLess(<<0, 0, 2 ^ 12>>, DExactSub(x, DOne))

\* slip_prob is a multiple of 2^-52.
SlipIsCoarse == env.slip_prob[3] % (2 ^ 12) = 0

\* C13 as stated: transitions(s, a) returns the prescribed pairs, with
\* pairwise distinct destinations, and the probabilities sum to exactly 1.
C13_ProbabilitiesSumToOne ==
  TransitionsCalled =>
    /\ ~lastCall.raised
    /\ PairsAsPrescribed(lastCall)
    /\ ExactSum(lastCall.returned) = DOne

\* C13, amended: transitions(s, a) returns the prescribed pairs, with pairwise
\* distinct destinations, the weights being the doubles 1.0 - slip_prob and
\* slip_prob / 2.0 added in floating point; the probabilities sum to 1 to
\* within 2^-52, and to exactly 1 when slip_prob is a multiple of 2^-52.
C13_ProbabilitiesSumToOneRounded ==
  TransitionsCalled =>
    /\ ~lastCall.raised
    /\ PairsAsPrescribed(lastCall)
    /\ NearOne(ExactSum(lastCall.returned))
    /\ SlipIsCoarse => ExactSum(lastCall.returned) = DOne

\* With slip_prob 0.005 two outcomes landed on one cell and their weights
\* were added into one entry.
C13_Witness ==
  /\ TransitionsCalled /\ lastCall.s # goal
  /\ ~SlipIsCoarse
  /\ Len(lastCall.returned) = 2

\* C14: move(s, a) and transitions(s, a) with an action outside U, R, D, L
\* raise, in every state s and for every slip_prob.
C14_UnknownActionRaises ==
  (lastCall.op \in {"move", "transitions"} /\ ~InActions(lastCall.a)) =>
     lastCall.raised

\* C15: neighbors(s) is the list of the cells to the north, east, south and
\* west of s, in that order, that are in bounds and have no wall on s's side
\* facing them.
C15_NeighborsInCanonicalOrder ==
  lastCall.op = "neighbors" =>
    LET s == lastCall.s
        open(n) == InGrid(rows, cols, n) /\ ~has_wall(walls, s, SideBit(s, n))
    IN lastCall.returned =
         SelectSeq(<< <<s[1] - 1, s[2]>>, <<s[1], s[2] + 1>>,
                      <<s[1] + 1, s[2]>>, <<s[1], s[2] - 1>> >>, open)

\* neighbors was called on a cell with an opening in the outer wall and
\* returned two cells.
C15_Witness ==
  /\ lastCall.op = "neighbors" /\ Len(lastCall.returned) = 2
  /\ \E b \in {N, E, S, W} :
       /\ ~has_wall(walls, lastCall.s, b)
       /\ ~InGrid(rows, cols, StepCell(lastCall.s,
                    IF b = N THEN "U" ELSE IF b = E THEN "R"
                    ELSE IF b = S THEN "D" ELSE "L"))

\* The results of move(s, U), move(s, R), move(s, D), move(s, L), in that
\* order, that are not s itself.
NonBounces(s) ==
  LET moved(n) == n # s
  IN SelectSeq([i \in 1 .. Len(Actions) |-> move(s, Actions[i]).to], moved)

\* C16: move(s, a) is the cell one step in direction a when that cell is in
\* neighbors(s) and s otherwise; the non-bounce results of the four moves, in
\* the order U, R, D, L, are the sequence neighbors(s).
C16_MoveAgreesWithNeighbors ==
  (lastCall.op = "move" /\ InActions(lastCall.a)) =>
     LET s == lastCall.s
         n == StepCell(s, lastCall.a)
     IN /\ ~lastCall.raised
        /\ lastCall.returned =
             (IF \E i \in 1 .. Len(neighbors(s)) : neighbors(s)[i] = n THEN n ELSE s)
        /\ NonBounces(s) = neighbors(s)

\* A move was blocked by a wall between two cells of the grid, from a cell
\* with two open sides.
C16_Witness ==
  /\ lastCall.op = "move" /\ InActions(lastCall.a)
  /\ lastCall.returned = lastCall.s
  /\ InGrid(rows, cols, StepCell(lastCall.s, lastCall.a))
  /\ Len(neighbors(lastCall.s)) = 2

\* C17: reward(s, a, s2) is 0 when s is the goal, else goal_reward when s2 is
\* the goal, else wall_reward when s2 = s, else step_reward.
C17_RewardCases ==
  lastCall.op = "reward" =>
    lastCall.returned =
      (IF lastCall.s = goal THEN 0
       ELSE IF lastCall.s2 = goal THEN env.goal_reward
       ELSE IF lastCall.s2 = lastCall.s THEN env.wall_reward
       ELSE env.step_reward)

\* reward was asked for a transition from the goal to itself.
C17_Witness ==
  lastCall.op = "reward" /\ lastCall.s = goal /\ lastCall.s2 = goal

\* ------------------------------------------------------------------ C18
\* C18: when any of the five solvers returns, the path is empty exactly when
\* solved is false, and when solved is true solution_path_length is
\* len(path) - 1 and solution_cost equals it.
C18_PathAndLengthAgree ==
  Returned =>
    /\ path = <<>> <=> ~metrics.solved
    /\ metrics.solved =>
         /\ metrics.solution_path_length = Len(path) - 1
         /\ metrics.solution_cost = metrics.solution_path_length

\* Value iteration returned unsolved after following its policy for several
\* steps.
C18_Witness ==
  Returned /\ alg = "value" /\ ~metrics.solved /\ Len(mdp.followed) > 2

\* ------------------------------------------------------------------ C19
\* C19: on every return of solve_policy_iteration the metrics hold the number
\* of outer iterations run, the cumulative number of evaluation sweeps and
\* the delta of the last evaluation sweep.
C19_PolicyIterationReportsCounts ==
  (Returned /\ alg = "policy") =>
     /\ metrics.policy_iteration_steps = Some(mdp.pi_it)
     /\ metrics.policy_evaluation_steps = Some(mdp.total_eval_sweeps)
     /\ metrics.final_convergence_error = Some(mdp.final_delta)

\* ------------------------------------------------------------------ C20
\* C20: on every return of solve_astar, unique_states_visited is the size of
\* the closed set.
C20_UniqueStatesIsClosedSize ==
  (Returned /\ IsAstar) => metrics.unique_states_visited = Cardinality(closed)

\* ------------------------------------------------------------------ C21
\* The states discovered and not yet expanded by A*.
OpenStates(gg, cl) == (DOMAIN gg) \ cl

\* A step in which solve_astar calls record_frontier: the entry, and every
\* iteration that expands a state other than the goal.
AstarSamples ==
  /\ IsAstar'
  /\ \/ spc = "idle"
     \/ spc = "loop" /\ metrics'.frontier_samples = metrics.frontier_samples + 1

\* The size passed to record_frontier in such a step.
SampleTaken ==
  IF spc = "idle" THEN metrics'.frontier_total
  ELSE metrics'.frontier_total - metrics.frontier_total

\* C21: every frontier-size sample solve_astar records is the number of
\* states discovered and not yet expanded at that moment.
C21_AstarSamplesAreFrontierSizes ==
  [][AstarSamples => SampleTaken = Cardinality(OpenStates(g', closed'))]_vars

\* ------------------------------------------------------------------ C22
\* The non-goal cells of the grid.
NonGoal == {s \in Cells(rows, cols) : s # goal}

\* The number of sweeps value iteration has performed: each sweep appends
\* every non-goal state to visited_order once.
SweepsDone == Len(visited_order) \div Cardinality(NonGoal)

\* The largest change of a value between two tables.
DeltaBetween(V1, V2) ==
  LET ds == {Abs(V1[s] - V2[s]) : s \in DOMAIN V1}
  IN CHOOSE d \in ds : \A e \in ds : e <= d

InViLoop == alg = "value" /\ spc = "sweep"

\* C22: solve_value_iteration performs at most max_iters sweeps, stops after
\* the first sweep whose delta is below theta, and returns (never raises) at
\* the cap; value_iteration_steps is the number of sweeps performed and
\* final_convergence_error the delta of the last sweep, which is below theta
\* when the loop stopped before the cap.
C22_ValueIterationStops ==
  /\ [](alg = "value" =>
          /\ spc \in {"sweep", "returned"}
          /\ SweepsDone <= mdp.max_iters
          /\ Returned =>
               /\ metrics.value_iteration_steps = Some(SweepsDone)
               /\ metrics.final_convergence_error = Some(mdp.delta)
               /\ SweepsDone < mdp.max_iters => mdp.delta < mdp.theta)
  /\ [][InViLoop =>
          IF (SweepsDone > 0 /\ mdp.delta < mdp.theta) \/ SweepsDone = mdp.max_iters
          THEN spc' = "returned" /\ mdp'.delta = mdp.delta
                 /\ visited_order' = visited_order
          ELSE /\ spc' = "sweep"
               /\ SweepsDone' = SweepsDone + 1
               /\ mdp'.delta = DeltaBetween(mdp.V, mdp'.V)]_vars

\* Value iteration returned after a sweep with delta below theta, before the
\* cap.
C22_Witness ==
  /\ Returned /\ alg = "value"
  /\ 1 < SweepsDone /\ SweepsDone < mdp.max_iters

\* ------------------------------------------------------------------ C23
\* t comes before s in row-major order.
Precedes(t, s) == t[1] < s[1] \/ (t[1] = s[1] /\ t[2] < s[2])

\* The table the backup of s reads in a sweep that takes Vold to Vnew in
\* place: the new values of the states before s, the old ones from s on.
TableReadAt(Vold, Vnew, s) ==
  [t \in Cells(rows, cols) |-> IF Precedes(t, s) THEN Vnew[t] ELSE Vold[t]]

\* The largest expected return of an action at s under table V.
MaxReturn(V, s) ==
  LET qs == {expected_return(V, s, Actions[i]) : i \in 1 .. Len(Actions)}
  IN CHOOSE q \in qs : \A e \in qs : e <= q

\* Vnew is Vold after one in-place row-major sweep of value iteration.
ViSweptInPlace(Vold, Vnew) ==
  \A s \in Cells(rows, cols) :
    Vnew[s] = IF s = goal THEN Vold[s]
              ELSE MaxReturn(TableReadAt(Vold, Vnew, s), s)

\* Vnew is Vold after one in-place row-major sweep of policy evaluation.
EvalSweptInPlace(policy, Vold, Vnew) ==
  \A s \in Cells(rows, cols) :
    Vnew[s] = IF s = goal THEN Vold[s]
              ELSE expected_return(TableReadAt(Vold, Vnew, s), s, policy[s])

\* seq lists the non-goal states once each, in row-major order.
RowMajorNonGoal(seq) ==
  /\ Len(seq) = Cardinality(NonGoal)
  /\ \A i \in 1 .. Len(seq) : seq[i] \in NonGoal
  /\ \A i, j \in 1 .. Len(seq) : i < j => Precedes(seq[i], seq[j])

ZeroTable == [s \in Cells(rows, cols) |-> 0]

\* The k-th table of the last policy evaluation, as a function of the state.
EvalTable(m, k) == [s \in Cells(rows, cols) |-> m.eval_tables[k][s[1] * cols + s[2] + 1]]

\* C23: every sweep of value iteration and of policy evaluation backs the
\* states up in row-major order and in place (the backup of s reads the new
\* values of the states before s and the old values of s and the states
\* after it), skips the goal, and the goal's value is 0 throughout.
C23_SweepsAreInPlace ==
  /\ [](alg \in {"value", "policy"} =>
          /\ mdp.V # <<>> => mdp.V[goal] = 0
          /\ alg = "policy" =>
               \A k \in 1 .. Len(mdp.eval_tables) : EvalTable(mdp, k)[goal] = 0)
  /\ [][(InViLoop /\ spc' = "sweep") =>
          /\ ViSweptInPlace(mdp.V, mdp'.V)
          /\ Len(visited_order') = Len(visited_order) + Cardinality(NonGoal)
          /\ RowMajorNonGoal(SubSeq(visited_order', Len(visited_order) + 1,
                                    Len(visited_order')))]_vars
  /\ [][(alg = "policy" /\ spc = "iterate" /\ spc' = "iterate") =>
          /\ mdp'.eval_tables # <<>>
          /\ mdp'.V = EvalTable(mdp', Len(mdp'.eval_tables))
          /\ \A k \in 1 .. Len(mdp'.eval_tables) :
               EvalSweptInPlace(mdp.policy,
                                IF k = 1 THEN ZeroTable ELSE EvalTable(mdp', k - 1),
                                EvalTable(mdp', k))]_vars

\* In the first sweep of value iteration without discounting some state was
\* given a value that no backup from the all-zero table yields: it read a
\* value written earlier in the same sweep.
C23_Witness ==
  /\ alg = "value" /\ spc = "sweep" /\ SweepsDone = 1 /\ env.gamma = 1
  /\ \E s \in NonGoal :
       mdp.V[s] \notin {env.step_reward, env.wall_reward, env.goal_reward}

\* ------------------------------------------------------------------ C24
\* The number of outer iterations policy iteration has run: each appends
\* every state to visited_order once.
ItersDone == Len(visited_order) \div (rows * cols)

\* p starts at start and every step of it is the move the policy prescribes
\* from a cell other than the goal.
Follows(policy, p) ==
  /\ p # <<>> /\ p[1] = start
  /\ \A i \in 1 .. Len(p) - 1 :
       p[i] # goal /\ p[i + 1] = move(p[i], policy[p[i]]).to

InPiLoop == alg = "policy" /\ spc = "iterate"

\* C24: the outer loop of solve_policy_iteration ends at the first iteration
\* whose improvement pass changes the action of no non-goal state (the pass
\* returns stable exactly then), and otherwise after max_policy_iters
\* iterations; in both cases the solver returns, following the last policy.
C24_PolicyIterationStops ==
  /\ [](alg = "policy" =>
          /\ spc \in {"iterate", "returned"}
          /\ ItersDone <= mdp.max_policy_iters)
  /\ [][InPiLoop =>
          IF (ItersDone > 0 /\ mdp.stable) \/ ItersDone = mdp.max_policy_iters
          THEN /\ spc' = "returned"
               /\ mdp'.policy = mdp.policy
               /\ Follows(mdp.policy, mdp'.followed)
               /\ path' \in {<<>>, mdp'.followed}
          ELSE /\ spc' = "iterate"
               /\ ItersDone' = ItersDone + 1
               /\ mdp'.stable <=>
                    \A s \in NonGoal : mdp'.policy[s] = mdp.policy[s]]_vars

\* Policy iteration returned a path to the goal after max_policy_iters
\* iterations, the last of which still changed the policy.
C24_Witness ==
  /\ Returned /\ alg = "policy"
  /\ ~mdp.stable /\ ItersDone = mdp.max_policy_iters /\ ItersDone > 1
  /\ metrics.solved /\ Len(path) > 2

\* ------------------------------------------------------------------ C25
\* The first action, in the order U, R, D, L, whose expected return at s
\* under V is the largest.
FirstBest(V, s) ==
  LET q == [k \in 1 .. Len(Actions) |-> expected_return(V, s, Actions[k])]
      i == CHOOSE k \in 1 .. Len(Actions) :
             /\ \A j \in 1 .. Len(Actions) : q[j] <= q[k]
             /\ \A j \in 1 .. k - 1 : q[j] < q[k]
  IN Actions[i]

\* C25: the action that value iteration's policy derivation and policy
\* iteration's improvement pass give a non-goal state is the first action in
\* the order U, R, D, L among those of maximum expected_return; the state's
\* previous action is not preferred on a tie.
C25_GreedyIsFirstBest ==
  ((Returned /\ alg = "value") \/ (alg = "policy" /\ ItersDone > 0)) =>
     \A s \in NonGoal : mdp.policy[s] = FirstBest(mdp.V, s)

\* After the first improvement pass some state left its previous action R
\* although R was among the best.
C25_Witness ==
  /\ alg = "policy" /\ ItersDone = 1
  /\ \E s \in NonGoal :
       /\ mdp.policy[s] # "R"
       /\ \A i \in 1 .. Len(Actions) :
            expected_return(mdp.V, s, Actions[i]) <= expected_return(mdp.V, s, "R")

\* ------------------------------------------------------------------ C26
\* The number of steps the forward simulation may take.
StepCap == rows * cols * 4

\* C26: the forward simulation of both MDP solvers takes at most rows*cols*4
\* steps from start and stops at the first step that reaches the goal or
\* that stays on its cell; the run is solved exactly when the last cell
\* reached is the goal, and otherwise the path is empty and
\* solution_path_length is 0.
C26_FollowedPathStops ==
  (Returned /\ alg \in {"value", "policy"}) =>
     LET p == mdp.followed
         n == Len(p)
     IN /\ Follows(mdp.policy, p)
        /\ n - 1 <= StepCap
        /\ \A i \in 1 .. n - 2 : p[i + 1] # p[i]
        /\ \/ p[n] = goal
           \/ n >= 2 /\ p[n] = p[n - 1]
           \/ n - 1 = StepCap
        /\ metrics.solved <=> p[n] = goal
        /\ metrics.solved => path = p
        /\ ~metrics.solved => path = <<>> /\ metrics.solution_path_length = 0

\* A solver returned unsolved after its simulation went round a cycle until
\* the step cap.
C26_Witness ==
  /\ Returned /\ alg \in {"value", "policy"}
  /\ Len(mdp.followed) - 1 = StepCap
  /\ mdp.followed[Len(mdp.followed)] # mdp.followed[Len(mdp.followed) - 1]
  /\ ~metrics.solved

\* ------------------------------------------------------------------ C27
InDfsLoop == alg = "dfs" /\ spc = "loop"

\* The cell solve_dfs expands next: the top of its stack.
StackTop == frontier[Len(frontier)]

\* The cells to the north, east, south and west of s, in that order.
Around(s) == <<StepCell(s, "U"), StepCell(s, "R"), StepCell(s, "D"), StepCell(s, "L")>>

\* The neighbours of s not yet discovered, in canonical order.
Undiscovered(s) ==
  LET nbs == {neighbors(s)[i] : i \in 1 .. Len(neighbors(s))}
  IN SelectSeq(Around(s), LAMBDA c : c \in nbs /\ c \notin seen)

\* C27: in solve_dfs the cell expanded is always the top of the stack, and
\* after the expansion of a non-goal cell with a neighbour not yet
\* discovered the top of the stack is the first such neighbour in the order
\* north, east, south, west: it is the next cell expanded.
C27_DfsVisitsInCanonicalOrder ==
  /\ [][(InDfsLoop /\ visited_order' # visited_order) =>
          visited_order' = Append(visited_order, StackTop)]_vars
  /\ [][(InDfsLoop /\ frontier # <<>> /\ StackTop # goal
           /\ Undiscovered(StackTop) # <<>>) =>
          /\ spc' = "loop" /\ frontier' # <<>>
          /\ StackTop' = Undiscovered(StackTop)[1]]_vars

\* solve_dfs expanded a cell that discovered at least two cells, and then
\* expanded one of them.
C27_Witness ==
  /\ alg = "dfs" /\ Len(visited_order) >= 2
  /\ LET n == Len(visited_order)
         s == visited_order[n - 1]
     IN /\ parents[visited_order[n]] = s
        /\ Cardinality({k \in DOMAIN parents : parents[k] = s}) >= 2

\* ------------------------------------------------------------------ C28
IsSearch == alg \in {"bfs", "dfs", "astar_manhattan", "astar_euclidean"}

\* The number of neighbours of the cells of seq, the goal left out.
RECURSIVE NeighboursOf(_)
NeighboursOf(seq) ==
  IF seq = <<>> THEN 0
  ELSE (IF Head(seq) = goal THEN 0 ELSE Len(neighbors(Head(seq))))
       + NeighboursOf(Tail(seq))

\* C28: at the return of solve_bfs, solve_dfs and solve_astar (and after
\* every iteration before it) states_expanded is the length of visited_order
\* and states_generated is the number of neighbours of the expanded states,
\* the goal at which the search stopped left out.
C28_ExpandedAndGeneratedCounts ==
  (IsSearch /\ spc \in {"loop", "returned"}) =>
     /\ metrics.states_expanded = Len(visited_order)
     /\ metrics.states_generated = NeighboursOf(visited_order)

\* A search returned solved having examined a neighbour that was already
\* discovered.
C28_Witness ==
  /\ IsSearch /\ Returned /\ metrics.solved
  /\ metrics.states_generated > Cardinality(DOMAIN parents) - 1
  /\ Len(visited_order) > 2

\* ------------------------------------------------------------------ C29
\* The position of cell c in visited_order, 0 when it has not been expanded.
ExpandedAt(c) ==
  IF \E i \in 1 .. Len(visited_order) : visited_order[i] = c
  THEN CHOOSE i \in 1 .. Len(visited_order) : visited_order[i] = c
  ELSE 0

\* Following the predecessors from k reaches start within n steps.
RECURSIVE ReachesStart(_, _)
ReachesStart(k, n) ==
  IF k = start THEN TRUE
  ELSE IF n = 0 \/ k \notin DOMAIN parents THEN FALSE
  ELSE ReachesStart(parents[k], n - 1)

\* The predecessor map is a tree rooted at start along open edges, every
\* predecessor was expanded and was so before its key, and no cell was
\* expanded twice.
PredecessorsFormTree ==
  /\ start \in DOMAIN parents /\ parents[start] = None
  /\ \A k \in (DOMAIN parents) \ {start} :
       /\ OpenEdge(walls, parents[k], k)
       /\ ExpandedAt(parents[k]) > 0
       /\ ExpandedAt(k) > 0 => ExpandedAt(parents[k]) < ExpandedAt(k)
       /\ ReachesStart(k, Cardinality(DOMAIN parents) - 1)
  /\ \A i, j \in 1 .. Len(visited_order) :
       visited_order[i] = visited_order[j] => i = j

\* The cell expanded in the step.
Expanding == visited_order'[Len(visited_order')]

\* The keys whose predecessor the step sets or replaces.
Reassigned ==
  {k \in (DOMAIN parents') \ {start} : k \notin DOMAIN parents \/ parents'[k] # parents[k]}

\* C29 as stated: at every iteration of the BFS, DFS and A* loops on a maze
\* with symmetric walls the predecessor map maps start to none and every
\* other key to an open-adjacent cell that was expanded before the key was
\* discovered (the predecessor is the cell under expansion when the key is
\* discovered, and stays); predecessors lead to start without repeating a
\* cell, and no cell is twice in visited_order.
C29_PredecessorFixedAtDiscovery ==
  /\ []((IsSearch /\ WallsSymmetric(walls)) => PredecessorsFormTree)
  /\ [][(IsSearch' /\ WallsSymmetric(walls)) =>
          \A k \in Reassigned :
            /\ k \notin DOMAIN parents
            /\ visited_order' # visited_order
            /\ parents'[k] = Expanding]_vars

\* C29, amended: the predecessor of a key is the cell that was under
\* expansion when the predecessor was last set, which is before the key is
\* expanded; BFS and DFS set it once, at discovery, and A* replaces it when a
\* later expansion reaches the key at lower cost.  The rest is as stated.
C29_PredecessorSetByExpansion ==
  /\ []((IsSearch /\ WallsSymmetric(walls)) => PredecessorsFormTree)
  /\ [][(IsSearch' /\ WallsSymmetric(walls)) =>
          \A k \in Reassigned :
            /\ visited_order' # visited_order
            /\ parents'[k] = Expanding
            /\ \A i \in 1 .. Len(visited_order') : visited_order'[i] # k
            /\ k \in DOMAIN parents =>
                 /\ IsAstar
                 /\ g'[k] < g[k]]_vars

\* A* replaced the predecessor of a discovered cell.
C29_Witness ==
  /\ IsAstar /\ spc = "loop" /\ metrics.repeated_state_updates > 0
  /\ \E k \in (DOMAIN parents) \ {start} :
       ExpandedAt(k) = 0 /\ ExpandedAt(parents[k]) = Len(visited_order)

\* ------------------------------------------------------------------ C30
VisitedCells == {c \in DOMAIN visited : visited[c]}

\* C30: at every iteration of the carving loop of generate_maze the stack
\* holds pairwise distinct visited cells, begins with start when non-empty
\* and has consecutive cells open-adjacent; the open edges are one fewer
\* than the visited cells; every visited cell is connected to start through
\* open edges and every unvisited cell has all four walls.
C30_CarvingLoopInvariant ==
  gpc = "carve" =>
    /\ \A i, j \in 1 .. Len(stack) : stack[i] = stack[j] => i = j
    /\ \A i \in 1 .. Len(stack) : stack[i] \in VisitedCells
    /\ stack # <<>> => stack[1] = start
    /\ \A i \in 1 .. Len(stack) - 1 : OpenEdge(walls, stack[i], stack[i + 1])
    /\ Cardinality(OpenEdges(walls)) = Cardinality(VisitedCells) - 1
    /\ VisitedCells = Closure(walls, {start})
    /\ \A c \in (DOMAIN visited) \ VisitedCells : walls[c] = AllWalls

\* The loop has backtracked from a dead end while cells remain unvisited.
C30_Witness ==
  /\ gpc = "carve" /\ Len(stack) >= 2
  /\ Len(stack) < Cardinality(VisitedCells)
  /\ VisitedCells # DOMAIN visited

\* ------------------------------------------------------------------ C31
\* The positions in the log of returns that hold item x.
ReturnsOf(x) == {i \in 1 .. Len(returned) : returned[i][1] = x}

\* The priority of the latest return of x.
LastReturn(x) ==
  returned[CHOOSE i \in ReturnsOf(x) : \A j \in ReturnsOf(x) : j <= i][2]

LastPush == lastOp.op = "push"

PerfectMaze ==
  /\ WallsSymmetric(walls)
  /\ Closure(walls, {start}) = DOMAIN walls
  /\ Cardinality(OpenEdges(walls)) = rows * cols - 1

InAstar == IsAstar /\ spc \in {"loop", "returned"}

\* Every entry ever enqueued belongs to a different cell and is still the
\* live one of its cell, _h was evaluated once per discovered cell, no
\* update was counted, and no entry of a closed cell is in the heap.
PushedOnce ==
  /\ openpq.tie = Cardinality(DOMAIN openpq.best)
  /\ DOMAIN openpq.best = DOMAIN g
  /\ metrics.heuristic_evaluations = Cardinality(DOMAIN g)
  /\ metrics.repeated_state_updates = 0
  /\ \A e \in openpq.heap : e.item \notin closed /\ IsLive(openpq, e)

\* The step, if it took an entry from the queue, expanded the popped cell.
PoppedIsExpanded ==
  openpq' # openpq => visited_order' = Append(visited_order, pop(openpq).item)

\* C32: on a maze whose open-cell graph is a spanning tree, solve_astar with
\* either heuristic enqueues every cell at most once, repeated_state_updates
\* stays 0, every pop that returns expands its cell (the branch for a popped
\* cell already closed is not taken), and heuristic_evaluations is the
\* number of discovered cells.  (Stated as: a state or step of A* where this
\* fails is not on a perfect maze.)
C32_AstarOnPerfectMaze ==
  /\ [](InAstar => (PushedOnce \/ ~PerfectMaze))
  /\ [][InAstar => (PoppedIsExpanded \/ ~PerfectMaze)]_vars

\* A* found the goal of a six-cell perfect maze with entries left in the heap.
C32_Witness ==
  /\ Returned /\ alg = "astar_euclidean" /\ PerfectMaze
  /\ rows * cols = 6 /\ metrics.solved
  /\ openpq.heap # {} /\ Len(visited_order) >= 4

\* ------------------------------------------------------------------ C33
\* The wall bit on the side an action moves towards.
SideOfAction(a) == IF a = "U" THEN N ELSE IF a = "R" THEN E ELSE IF a = "D" THEN S ELSE W

\* neighbors(s) and _move(s, a) as they would be with the wall tests alone.
WallsOnlyNeighbors(s) ==
  SelectSeq([i \in 1 .. 4 |-> StepCell(s, Actions[i])],
            LAMBDA n : \E a \in {"U", "R", "D", "L"} :
                         n = StepCell(s, a) /\ ~has_wall(walls, s, SideOfAction(a)))

WallsOnlyMove(s, a) == IF has_wall(walls, s, SideOfAction(a)) THEN s ELSE StepCell(s, a)

\* C33: while generate_maze carves and in the maze it returns, a cell in row
\* 0 has its N wall, a cell in the last row its S wall, a cell in column 0
\* its W wall and a cell in the last column its E wall; hence every side
\* without a wall leads to a cell of the grid, and neighbors and _move give
\* the results the wall tests alone would give.
C33_OuterWallsKept ==
  gpc \in {"carve", "done"} =>
    \A c \in Cells(rows, cols) :
      /\ c[1] = 0 => has_wall(walls, c, N)
      /\ c[1] = rows - 1 => has_wall(walls, c, S)
      /\ c[2] = 0 => has_wall(walls, c, W)
      /\ c[2] = cols - 1 => has_wall(walls, c, E)
      /\ \A a \in {"U", "R", "D", "L"} :
           /\ ~has_wall(walls, c, SideOfAction(a)) => InGrid(rows, cols, StepCell(c, a))
           /\ move(c, a).to = WallsOnlyMove(c, a)
      /\ neighbors(c) = WallsOnlyNeighbors(c)

\* A returned maze in which a corner cell other than start has been opened
\* on one of its inner sides.
C33_Witness ==
  /\ gpc = "done" /\ rows * cols = 6 /\ start # <<0, 0>>
  /\ walls[<<0, 0>>] # AllWalls
  /\ \E c \in Cells(rows, cols) : Len(neighbors(c)) = 3

\* ------------------------------------------------------------------ C34
\* Where action a takes s when nothing slips: one step, or s itself when a
\* wall or the edge of the grid is in the way.
IntendedMove(s, a) ==
  IF has_wall(walls, s, SideOfAction(a)) \/ ~InGrid(rows, cols, StepCell(s, a))
  THEN s ELSE StepCell(s, a)

\* policy.get(s, "U")
PolicyAt(policy, s) == IF s \in DOMAIN policy THEN policy[s] ELSE "U"

====
